---- MODULE Spec2Model ----
(***************************************************************************)
(* Finance Insight Service: the full 4-agent workflow of full_main.main,   *)
(* the structured-output parsers of full_main and api_server, and the      *)
(* vector-id allocation of the memory manager.                             *)
(*                                                                         *)
(* Stage raw texts are sequences of lexical tokens:                        *)
(*   "{" "}" "[" "]"  the JSON / Python brackets                           *)
(*   "1"              a decimal digit                                      *)
(*   " "              one whitespace character                             *)
(*   "p"              a word of prose (neither JSON nor a Python literal)  *)
(*   "k"              the object member  "final_response": "X"             *)
(*   "e"              the object member  "final_response": ""              *)
(* The alphabet has no comma, so a container holds at most one element.    *)
(***************************************************************************)
EXTENDS Integers, Sequences, FiniteSets, TLC

\* ------------------------------------------------------------------ bounds
MaxLen == 4
NumCalls == 3
NumRequests == 2
MaxEvents == 1
NumThreads == 3
MaxMessages == 7
MaxNames == 2
MaxSymbols == 3

\* build_summary: the limit of the recent section and the top_k of the related one.
recent_limit == 6
related_top_k == 6
\* chat: the top_k of the search it traces.
chat_top_k == 3

\* --------------------------------------------------------------- constants
max_retries == 2

Tokens == {"{", "}", "[", "]", "1", " ", "p", "k", "e"}

RECURSIVE SeqsUpTo(_)
SeqsUpTo(n) ==
    IF n = 0 THEN {<<>>}
    ELSE LET shorter == SeqsUpTo(n - 1)
         IN  shorter \cup {Append(s, t) : s \in {x \in shorter : Len(x) = n - 1}, t \in Tokens}

Texts == SeqsUpTo(MaxLen)

\* ------------------------------------------------------------ JSON values
\* One record shape for every parsed value; t names the Python type.
Num(n)  == [t |-> "num",  n |-> n, items |-> <<>>, keys |-> {}, final_response |-> <<>>, raw_output |-> <<>>]
List(xs) == [t |-> "list", n |-> 0, items |-> xs,  keys |-> {}, final_response |-> <<>>, raw_output |-> <<>>]
PySet(xs) == [t |-> "set", n |-> 0, items |-> xs,  keys |-> {}, final_response |-> <<>>, raw_output |-> <<>>]
Dict(ks, fr, raw) ==
    [t |-> "dict", n |-> 0, items |-> <<>>, keys |-> ks, final_response |-> fr, raw_output |-> raw]
EmptyDict == Dict({}, <<>>, <<>>)
NoneValue == [t |-> "none", n |-> 0, items |-> <<>>, keys |-> {}, final_response |-> <<>>, raw_output |-> <<>>]

\* The object a member token stands for.
MemberDict(tok) ==
    IF tok = "k" THEN Dict({"final_response"}, <<"X">>, <<>>)
    ELSE Dict({"final_response"}, <<>>, <<>>)

\* str.strip(): drop the whitespace at both ends.
RECURSIVE LStrip(_)
LStrip(s) == IF s # <<>> /\ Head(s) = " " THEN LStrip(Tail(s)) ELSE s

RECURSIVE RStrip(_)
RStrip(s) ==
    IF s # <<>> /\ s[Len(s)] = " " THEN RStrip(SubSeq(s, 1, Len(s) - 1)) ELSE s

Strip(s) == RStrip(LStrip(s))

\* str.find(tok): the first position of tok, 0 when absent (Python's -1).
RECURSIVE FindFrom(_, _, _)
FindFrom(s, tok, i) ==
    IF i > Len(s) THEN 0
    ELSE IF s[i] = tok THEN i
    ELSE FindFrom(s, tok, i + 1)

Find(s, tok) == FindFrom(s, tok, 1)

RECURSIVE SkipWs(_, _)
SkipWs(s, i) == IF i <= Len(s) /\ s[i] = " " THEN SkipWs(s, i + 1) ELSE i

RECURSIVE NumEnd(_, _)
NumEnd(s, i) == IF i <= Len(s) /\ s[i] = "1" THEN NumEnd(s, i + 1) ELSE i

RECURSIVE Repunit(_)
Repunit(len) == IF len = 0 THEN 0 ELSE 10 * Repunit(len - 1) + 1

ParseFail == [ok |-> FALSE, val |-> NoneValue, next |-> 0]
ParseOk(v, nxt) == [ok |-> TRUE, val |-> v, next |-> nxt]

\* One value starting at position i (not whitespace).  py = FALSE is the
\* JSON grammar of json.loads; py = TRUE adds the set display of Python.
RECURSIVE ParseValue(_, _, _)
ParseValue(s, i, py) ==
    IF i > Len(s) THEN ParseFail
    ELSE IF s[i] = "1" THEN ParseOk(Num(Repunit(NumEnd(s, i) - i)), NumEnd(s, i))
    ELSE IF s[i] = "[" THEN
        LET j == SkipWs(s, i + 1)
        IN  IF j <= Len(s) /\ s[j] = "]" THEN ParseOk(List(<<>>), j + 1)
            ELSE LET r == ParseValue(s, j, py)
                     k == SkipWs(s, r.next)
                 IN  IF r.ok /\ k <= Len(s) /\ s[k] = "]"
                     THEN ParseOk(List(<<r.val>>), k + 1)
                     ELSE ParseFail
    ELSE IF s[i] = "{" THEN
        LET j == SkipWs(s, i + 1)
        IN  IF j > Len(s) THEN ParseFail
            ELSE IF s[j] = "}" THEN ParseOk(EmptyDict, j + 1)
            ELSE IF s[j] \in {"k", "e"} THEN
                LET k == SkipWs(s, j + 1)
                IN  IF k <= Len(s) /\ s[k] = "}"
                    THEN ParseOk(MemberDict(s[j]), k + 1)
                    ELSE ParseFail
            ELSE IF py THEN
                LET r == ParseValue(s, j, py)
                    k == SkipWs(s, r.next)
                IN  IF r.ok /\ k <= Len(s) /\ s[k] = "}"
                    THEN ParseOk(PySet(<<r.val>>), k + 1)
                    ELSE ParseFail
            ELSE ParseFail
    ELSE ParseFail

\* The whole text is one value, surrounded by optional whitespace.
ParseWhole(s, py) ==
    LET r == ParseValue(s, SkipWs(s, 1), py)
    IN  IF r.ok /\ SkipWs(s, r.next) = Len(s) + 1
        THEN [ok |-> TRUE, val |-> r.val]
        ELSE [ok |-> FALSE, val |-> NoneValue]

\* json.loads: ok = FALSE is json.JSONDecodeError.
JsonLoads(s) == ParseWhole(s, FALSE)

\* A set display whose element is a list, a dict or a set is unhashable.
RECURSIVE Unhashable(_)
Unhashable(v) ==
    \/ v.t = "set" /\ \E x \in 1..Len(v.items) : v.items[x].t \in {"list", "dict", "set"}
    \/ \E x \in 1..Len(v.items) : Unhashable(v.items[x])

\* ast.literal_eval: "ok", "syntax" (ValueError / SyntaxError) or "type"
\* (the TypeError of an unhashable set element, which is not caught).
LiteralEval(s) ==
    LET r == ParseWhole(s, TRUE)
    IN  IF ~r.ok THEN [status |-> "syntax", val |-> NoneValue]
        ELSE IF Unhashable(r.val) THEN [status |-> "type", val |-> NoneValue]
        ELSE [status |-> "ok", val |-> r.val]

Returned(v) == [raised |-> FALSE, val |-> v]
Raised == [raised |-> TRUE, val |-> NoneValue]

\* The unstructured fallback object {"raw_output": stripped}.
Fallback(stripped) == Dict({"raw_output"}, <<>>, stripped)

\* The retry of json.loads from the first "{" and then from the first "[".
FromFirst(stripped, tok) ==
    LET start == Find(stripped, tok)
    IN  IF start = 0 THEN [ok |-> FALSE, val |-> NoneValue]
        ELSE JsonLoads(SubSeq(stripped, start, Len(stripped)))

\* A _parse_json without the ast.literal_eval step.
_parse_json_without_literal_eval(text) ==
    LET stripped == Strip(text)
    IN  IF stripped = <<>> THEN Returned(EmptyDict)
        ELSE IF JsonLoads(stripped).ok THEN Returned(JsonLoads(stripped).val)
        ELSE IF FromFirst(stripped, "{").ok THEN Returned(FromFirst(stripped, "{").val)
        ELSE IF FromFirst(stripped, "[").ok THEN Returned(FromFirst(stripped, "[").val)
        ELSE Returned(Fallback(stripped))

\* full_main._parse_json
_parse_json(text) ==
    LET stripped == Strip(text)
    IN  IF stripped = <<>> THEN Returned(EmptyDict)
        ELSE IF JsonLoads(stripped).ok THEN Returned(JsonLoads(stripped).val)
        ELSE IF FromFirst(stripped, "{").ok THEN Returned(FromFirst(stripped, "{").val)
        ELSE IF FromFirst(stripped, "[").ok THEN Returned(FromFirst(stripped, "[").val)
        ELSE LET lit == LiteralEval(stripped)
             IN  IF lit.status = "ok" THEN Returned(lit.val)
                 ELSE IF lit.status = "type" THEN Raised
                 ELSE Returned(Fallback(stripped))

\* dict.get("final_response") is truthy.
HasFinalResponse(v) ==
    v.t = "dict" /\ "final_response" \in v.keys /\ v.final_response # <<>>

\* api_server._extract_final_response: the first component of the pair.
_extract_final_response(raw) ==
    LET stripped == Strip(raw)
    IN  IF stripped = <<>> THEN <<>>
        ELSE IF ~JsonLoads(stripped).ok THEN stripped
        ELSE IF HasFinalResponse(JsonLoads(stripped).val)
             THEN JsonLoads(stripped).val.final_response
        ELSE stripped

\* api_server: assistant_text = final_response or str(raw_output); the
\* second component is the raw text itself whenever the first is empty.
AssistantText(raw) ==
    IF _extract_final_response(raw) # <<>> THEN _extract_final_response(raw) ELSE raw

\* full_main.main, lines 284-291: what the run prints for final_raw.
PrintedText(final_raw) ==
    LET final_output == _parse_json(final_raw).val
    IN  IF HasFinalResponse(final_output) THEN final_output.final_response
        ELSE final_raw

\* ------------------------------------------------- plan and verdict values
\* A JSON scalar found in the planner's plan; one record shape for all.
JBool(b) == [t |-> "bool", b |-> b, s |-> ""]
JStr(s) == [t |-> "str", b |-> FALSE, s |-> s]
JNull == [t |-> "null", b |-> FALSE, s |-> ""]
JAbsent == [t |-> "absent", b |-> FALSE, s |-> ""]

\* str.strip().lower() on the flag strings the planner may write.
StripLower(s) == IF s = " Yes " THEN "yes" ELSE s

\* full_main._as_bool
_as_bool(value) ==
    IF value.t = "bool" THEN value.b
    ELSE IF value.t = "str" THEN StripLower(value.s) \in {"true", "yes", "1"}
    ELSE FALSE

\* dict.get(key, default): the default replaces a missing key only.
GetOr(value, default) == IF value.t = "absent" THEN default ELSE value

\* A Python str holding a comma separated list is the sequence of its
\* pieces; the empty string is the single empty piece.
EmptyStr == <<"">>
Truthy(str) == str # EmptyStr
StripPiece(piece) == IF piece = " " THEN "" ELSE piece

\* full_main._normalize_list on such a string
RECURSIVE _normalize_list(_)
_normalize_list(value) ==
    IF value = <<>> THEN <<>>
    ELSE IF StripPiece(Head(value)) # ""
         THEN <<StripPiece(Head(value))>> \o _normalize_list(Tail(value))
         ELSE _normalize_list(Tail(value))

\* a or b or "" over strings
OrElse(a, b) == IF Truthy(a) THEN a ELSE b

\* _normalize_quant_request that appends the note whenever a symbol was given.
_normalize_quant_request_noting_any(request, defaults) ==
    LET symbols == _normalize_list(OrElse(request.symbol, defaults.symbol))
        symbol == IF symbols # <<>> THEN symbols[1] ELSE ""
    IN  [symbol |-> symbol,
         request |-> IF symbols # <<>> THEN <<"req_text", symbol>> ELSE <<"req_text">>,
         provided_data |-> OrElse(request.provided_data, defaults.provided_data)]

\* full_main._normalize_quant_request, lines 106-126: the symbol, request and
\* provided_data fields. The request text is the text asked for, followed by
\* the note of lines 113-115, which names the symbol analysed.
_normalize_quant_request(request, defaults) ==
    LET symbols == _normalize_list(OrElse(request.symbol, defaults.symbol))
        symbol == IF symbols # <<>> THEN symbols[1] ELSE ""
    IN  [symbol |-> symbol,
         request |-> IF symbols # <<>> /\ Len(symbols) > 1
                     THEN <<"req_text", symbol>> ELSE <<"req_text">>,
         provided_data |-> OrElse(request.provided_data, defaults.provided_data)]

\* full_main.main line 202: not symbol and not provided_data
QuantInputsEmpty(quant_inputs) ==
    quant_inputs.symbol = "" /\ ~Truthy(quant_inputs.provided_data)

\* full_main.main lines 203-210: the synthetic result, as json.dumps writes it.
SyntheticQuant ==
    "{\"as_of\": {}, \"snapshot\": {\"data_points\": 0}, \"limitations\": [\"Quant request missing symbol or provided_data.\"]}"

NoQuantInputs == [symbol |-> "", request |-> <<"req_text">>, provided_data |-> EmptyStr]

\* What the command line can put into runtime_defaults.
RuntimeDefaults ==
    { [symbol |-> EmptyStr, provided_data |-> EmptyStr],
      [symbol |-> <<"MSFT">>, provided_data |-> EmptyStr],
      [symbol |-> EmptyStr, provided_data |-> <<"csv">>] }

QuantRequests ==
    {[symbol |-> s, provided_data |-> d] :
        s \in {EmptyStr, <<" ">>, <<"AAPL", "MSFT">>},
        d \in {EmptyStr, <<"[1]">>}}

NoQuantRequest == [symbol |-> EmptyStr, provided_data |-> EmptyStr]

ResearchFlags == {JBool(TRUE), JBool(FALSE), JStr(" Yes ")}
QuantFlags == {JBool(TRUE), JNull}
AuditFlags == {JAbsent, JBool(FALSE)}

\* What _parse_json can yield for the planner's raw text: an object with a
\* plan object, an object whose plan is not an object, an object without a
\* plan (the fallback object among them), a JSON array or scalar, or the
\* uncaught TypeError of _parse_json.
PlannerValue(t, plan, r, q, a, qr) ==
    [t |-> t, plan |-> plan, use_research |-> r, use_quant |-> q, use_audit |-> a,
     quant_request |-> qr]

PlannerOutputs ==
    {PlannerValue("dict", "dict", r, q, a, qr) :
        r \in ResearchFlags, q \in QuantFlags, a \in AuditFlags, qr \in QuantRequests}
    \cup {PlannerValue("dict", k, JAbsent, JAbsent, JAbsent, NoQuantRequest) : k \in {"absent", "str"}}
    \cup {PlannerValue(t, "absent", JAbsent, JAbsent, JAbsent, NoQuantRequest) : t \in {"list", "raised"}}

ResearchTexts == {"", "R1"}
QuantTexts == {"", "Q1"}

\* What _parse_json can yield for the auditor's raw text.
AuditValue(t, status, reruns) == [t |-> t, audit_status |-> status, required_reruns |-> reruns]

AuditOutputs ==
    {AuditValue("dict", st, rr) :
        st \in {"APPROVED", "PARTIAL", "REJECTED", "rejected"},
        rr \in SUBSET {"research", "quant"}}
    \cup {AuditValue(t, "", {}) : t \in {"dict", "list", "raised"}}

\* audit_output = "" when no audit ran
NoAudit == AuditValue("str", "", {})

\* str.upper() on the verdict strings
Upper(s) == IF s = "rejected" THEN "REJECTED" ELSE s

\* full_main.main lines 232-236
AuditStatusOf(audit_output) ==
    IF audit_output.t = "dict" THEN Upper(audit_output.audit_status) ELSE ""

\* full_main.main lines 237-241
RequiredRerunsOf(audit_output) ==
    IF audit_output.t = "dict" THEN audit_output.required_reruns ELSE {}

\* A break condition that needs both a non-rejecting status and no reruns.
ShouldBreakOnBoth(status, reruns) == status # "REJECTED" /\ reruns = {}

\* full_main.main line 243: the loop's break condition
ShouldBreak(status, reruns) == status # "REJECTED" \/ reruns = {}

\* A rerun selection that ignores the revised plan.
RerunsStageIgnoringPlan(stage, reruns, selected) == stage \in reruns

\* full_main.main lines 262 and 266: which stages a repair iteration reruns
RerunsStage(stage, reruns, selected) == stage \in reruns /\ selected

\* The final-report raw texts the pipeline draws from.
FinalRaws ==
    { <<>>, <<"p">>, <<"p", "{", "k", "}">>, <<"{", "e", "}">>, <<"{", "[", "]", "}">> }

\* ---------------------------------------------------------------- state
VARIABLES
    pc,               \* full_main.main: position in the workflow
    runtime_defaults, \* full_main.main: the defaults built from the arguments
    use_research, use_quant, use_audit,
    research_output, quant_output, quant_inputs,
    audit_output, audit_status, required_reruns,
    attempt,          \* full_main.main: iterations of the repair loop begun
    final_raw, printed,
    researchCalls, quantCalls, auditCalls, repairCalls, finalCalls,
    failed_at,        \* the line at which the run raised, 0 if it did not
    persistent,       \* every loop iteration so far got a rejecting audit
    vector_seq,       \* MongoStore.meta: the value of the vector_seq document
    faiss_ids,        \* FaissIndex: the ids held by the index
    embeddings,       \* MongoStore.embeddings: the EmbeddingRecords
    callPc,           \* add_message_embedding: position of each call
    vector_id,        \* add_message_embedding: the local vector_id of each call
    allocated,        \* the ids next_vector_id returned, in allocation order
    content,          \* add_message_embedding: the content argument of each call
    openai_client,    \* MemoryManager.openai_client is set (an API key is configured)
    on_returns,       \* crewai_event_bus.on(cls)(fn): what the library call returns
    endpoint,         \* which endpoint each request was posted to
    http,             \* the status code of each POST's response, 0 before it
    worker,           \* run_crew / run_job: position of each request's thread
    gen,              \* generate_stream: position of each stream's generator
    client,           \* whether the HTTP client of each request still listens
    stream_lock,      \* generate_stream.lock is held by the generator
    events_to_send,   \* generate_stream.events_to_send: the frames queued for each stream
    traces,           \* the runs whose events each request's collector recorded
    execution_result, \* the outcome of each run's kickoff (execution_result, result)
    run_lock,         \* create_app.run_lock: the request holding it, 0 if free
    jobs,             \* the job registry: status, result and error of each job
    messages,         \* MongoStore.messages: the request and role of each message
    handlers,         \* the requests whose handlers the event bus holds
    emitted,          \* the number of events each run emitted
    yielded,          \* the trace and terminal frames each stream's generator yielded
    index_lock,       \* FaissIndex.lock: the thread holding it, 0 if free
    index,            \* FaissIndex.index: None or the ids of the in-memory index
    index_d,          \* FaissIndex.index.d: the dimension of the index, 0 while it is None
    index_path,       \* the index file: absent, complete or partly written, and its ids
    vector_d,         \* FaissIndex.add: the dimension of the vector each thread passes
    tpc,              \* FaissIndex.add / search: position of each calling thread
    found,            \* FaissIndex.search: the ids each search read from the index
    crashed,          \* the process died
    mongo_messages,   \* MongoStore.messages in insertion order: threadId and content of each
    mongo_embeddings, \* MongoStore.embeddings: the EmbeddingRecords
    faiss_vectors,    \* FaissIndex.index: the text embedded under each vector id
    spc,              \* the memory queries: filling the store, summarised or searched
    asked,            \* the arguments of the query made: thread_id, text and top_k
    related,          \* what search_related returned
    summary,          \* the lines of the text build_summary returned
    threads,          \* MongoStore.threads: the threadIds of the threads
    message_log,      \* MongoStore.messages in insertion order: threadId, role and content
    posted,           \* chat / chat_async: endpoint, supplied threadId, thread_id and position of each request
    task_names,       \* build_crew: the task_names argument, or None
    search_keys,      \* the environment: whether SERPAPI_API_KEY and SERPER_API_KEY are set
    built,            \* build_crew: not called, the crew it returned, or the error it raised
    kicked_off,       \* _run_task: kickoff was called on the crew
    quant_req,        \* the quant_request of the planner's output (lines 200, 267)
    quant_defaults,   \* the runtime defaults handed to _normalize_quant_request
    normalized,       \* what _normalize_quant_request returned, once it was applied
    text,        \* parser harness: the raw stage text under test
    op,          \* parser harness: which function was applied last
    parsed,      \* parser harness: result of _parse_json(text)
    reply        \* parser harness: result of the reply extraction

parseVars == <<text, op, parsed, reply>>
mainVars ==
    <<pc, runtime_defaults, use_research, use_quant, use_audit, research_output,
      quant_output, quant_inputs, audit_output, audit_status, required_reruns,
      attempt, final_raw, printed, researchCalls, quantCalls, auditCalls,
      repairCalls, finalCalls, failed_at, persistent>>
memInputs == <<content, openai_client>>
memVars == <<vector_seq, faiss_ids, embeddings, callPc, vector_id, allocated, memInputs>>
srvVars ==
    <<on_returns, endpoint, http, worker, gen, client, stream_lock, events_to_send, traces,
      execution_result, run_lock, jobs, messages, handlers, emitted, yielded>>
indexVars ==
    <<index_lock, index, index_d, index_path, vector_d, tpc, found, crashed>>
recallVars ==
    <<mongo_messages, mongo_embeddings, faiss_vectors, spc, asked, related, summary>>
threadVars ==
    <<threads, message_log, posted>>
crewVars ==
    <<task_names, search_keys, built, kicked_off>>
normVars ==
    <<quant_req, quant_defaults, normalized>>
unitVars == <<indexVars, recallVars, threadVars, crewVars, normVars>>
vars == <<mainVars, parseVars, memVars, srvVars, unitVars>>

Calls == 1..NumCalls

\* Message contents: empty, blank and not blank.
Contents == {<<>>, <<" ">>, <<"p">>}

\* The memory manager before any call (and while another component is studied).
MemIdle ==
    /\ vector_seq = 0
    /\ faiss_ids = {}
    /\ embeddings = {}
    /\ callPc = [c \in Calls |-> "idle"]
    /\ vector_id = [c \in Calls |-> 0]
    /\ allocated = <<>>
    /\ content = [c \in Calls |-> <<>>]
    /\ openai_client = FALSE

Reqs == 1..NumRequests

\* A job that has not been created; result and error are None.
NoJob == [status |-> "none", result |-> "", error |-> ""]

\* The server before any request.
SrvFresh ==
    /\ endpoint = [r \in Reqs |-> "none"]
    /\ http = [r \in Reqs |-> 0]
    /\ worker = [r \in Reqs |-> "none"]
    /\ gen = [r \in Reqs |-> "none"]
    /\ client = [r \in Reqs |-> "connected"]
    /\ stream_lock = [r \in Reqs |-> FALSE]
    /\ events_to_send = [r \in Reqs |-> <<>>]
    /\ traces = [r \in Reqs |-> {}]
    /\ execution_result = [r \in Reqs |-> "none"]
    /\ run_lock = 0
    /\ jobs = [r \in Reqs |-> NoJob]
    /\ messages = {}
    /\ handlers = {}
    /\ emitted = [r \in Reqs |-> 0]
    /\ yielded = [r \in Reqs |-> <<>>]

\* The server while another component is studied.
SrvIdle == SrvFresh /\ on_returns = "handler"

Threads == 1..NumThreads

\* FaissIndex.index is None until _load or _init sets it.
NoIndex == [is_none |-> TRUE, ids |-> {}]

\* The file at index_path: none, or the one write_index completed for ids.
NoFile == [state |-> "absent", ids |-> {}]
FileOf(ids) == [state |-> "complete", ids |-> ids]

\* FaissIndex._load: the index read from the file if the file exists.
_load(file) == IF file.state = "absent" THEN NoIndex ELSE [is_none |-> FALSE, ids |-> file.ids]

\* The index component before any call, with no index file.
IndexIdle ==
    /\ index_lock = 0
    /\ index = NoIndex
    /\ index_d = 0
    /\ index_path = NoFile
    /\ vector_d = [t \in Threads |-> 0]
    /\ tpc = [t \in Threads |-> "idle"]
    /\ found = [t \in Threads |-> {}]
    /\ crashed = FALSE

\* The store and the index before any message, and no query made.
RecallIdle ==
    /\ mongo_messages = <<>>
    /\ mongo_embeddings = {}
    /\ faiss_vectors = <<>>
    /\ spc = "filling"
    /\ asked = [thread_id |-> 0, query |-> <<>>, top_k |-> 0]
    /\ related = <<>>
    /\ summary = <<>>

\* A request that was not posted.
NotPosted == [endpoint |-> "none", supplied |-> 0, thread_id |-> 0, at |-> "none"]

\* The store before any request.
ThreadsIdle ==
    /\ threads = {}
    /\ message_log = <<>>
    /\ posted = [r \in Reqs |-> NotPosted]

\* No call of build_crew yet.
NotBuilt == [state |-> "none", error |-> "", tasks |-> <<>>, context |-> <<>>]

CrewIdle ==
    /\ task_names = [given |-> FALSE, names |-> <<>>]
    /\ search_keys = [SERPAPI_API_KEY |-> FALSE, SERPER_API_KEY |-> FALSE]
    /\ built = NotBuilt
    /\ kicked_off = FALSE

\* No quant request normalised yet.
NormIdle ==
    /\ quant_req = NoQuantRequest
    /\ quant_defaults = NoQuantRequest
    /\ normalized = <<>>

\* The components modelled on their own, while another one is studied.
UnitIdle == IndexIdle /\ RecallIdle /\ ThreadsIdle /\ CrewIdle /\ NormIdle

\* The workflow before it starts (and while another component is studied).
MainIdle ==
    /\ pc = "start"
    /\ use_research = FALSE /\ use_quant = FALSE /\ use_audit = FALSE
    /\ research_output = "" /\ quant_output = ""
    /\ quant_inputs = NoQuantInputs
    /\ audit_output = NoAudit /\ audit_status = "" /\ required_reruns = {}
    /\ attempt = 0
    /\ final_raw = <<>> /\ printed = <<>>
    /\ researchCalls = 0 /\ quantCalls = 0 /\ auditCalls = 0
    /\ repairCalls = 0 /\ finalCalls = 0
    /\ failed_at = 0
    /\ persistent = TRUE

ParseIdle ==
    /\ text = <<>>
    /\ op = "idle"
    /\ parsed = Returned(NoneValue)
    /\ reply = <<>>

\* ------------------------------------------------- parser specification
ParseInit ==
    /\ MainIdle
    /\ MemIdle
    /\ SrvIdle
    /\ UnitIdle
    /\ runtime_defaults = NoQuantRequest
    /\ text \in Texts
    /\ op = "input"
    /\ parsed = Returned(NoneValue)
    /\ reply = <<>>

\* _parse_json applied to the text, then the final step of full_main.main.
ApplyParseJson ==
    /\ op = "input"
    /\ _parse_json(text).raised = FALSE
    /\ parsed' = _parse_json(text)
    /\ reply' = PrintedText(text)
    /\ op' = "full_main"
    /\ UNCHANGED <<text, mainVars, memVars, srvVars, unitVars>>

\* _parse_json raising out of full_main.main.
ApplyParseJsonRaises ==
    /\ op = "input"
    /\ _parse_json(text).raised
    /\ parsed' = Raised
    /\ op' = "raised"
    /\ UNCHANGED <<text, reply, mainVars, memVars, srvVars, unitVars>>

\* _extract_final_response and the assistant text of /chat and /chat/async.
ApplyExtractFinalResponse ==
    /\ op = "input"
    /\ reply' = AssistantText(text)
    /\ op' = "api_server"
    /\ UNCHANGED <<text, parsed, mainVars, memVars, srvVars, unitVars>>

ParseNext == ApplyParseJson \/ ApplyParseJsonRaises \/ ApplyExtractFinalResponse

SpecParse == ParseInit /\ [][ParseNext]_vars

\* ---------------------------------------------- full_main.main: workflow
Init ==
    /\ MainIdle
    /\ runtime_defaults \in RuntimeDefaults
    /\ ParseIdle
    /\ MemIdle
    /\ SrvIdle
    /\ UnitIdle

\* The plan of a planner output (line 186, and line 257 with its guard):
\* the flags of a plan object, nothing for a missing plan.
PlanFlag(planner_output, flag) ==
    IF planner_output.t = "dict" /\ planner_output.plan = "dict"
    THEN planner_output[flag]
    ELSE JAbsent

\* The first pass without lines 215-216: use_audit stays as the planner gave it.
PlanWithoutForcedAudit ==
    /\ pc = "start"
    /\ \E planner_output \in PlannerOutputs :
        LET research == _as_bool(PlanFlag(planner_output, "use_research"))
            quant == _as_bool(PlanFlag(planner_output, "use_quant"))
            inputs == _normalize_quant_request(planner_output.quant_request, runtime_defaults)
        IN
        \E r \in (IF research THEN ResearchTexts ELSE {""}),
           q \in (IF ~quant THEN {""}
                  ELSE IF QuantInputsEmpty(inputs) THEN {SyntheticQuant}
                  ELSE QuantTexts) :
            /\ planner_output.t = "dict"
            /\ planner_output.plan # "str"
            /\ use_research' = research
            /\ use_quant' = quant
            /\ research_output' = r
            /\ researchCalls' = IF research THEN researchCalls + 1 ELSE researchCalls
            /\ quant_inputs' = IF quant THEN inputs ELSE quant_inputs
            /\ quant_output' = q
            /\ quantCalls' = IF quant /\ ~QuantInputsEmpty(inputs)
                             THEN quantCalls + 1 ELSE quantCalls
            /\ use_audit' = _as_bool(GetOr(PlanFlag(planner_output, "use_audit"), JBool(TRUE)))
    /\ pc' = "audit"
    /\ UNCHANGED <<runtime_defaults, audit_output, audit_status, required_reruns, attempt,
                   final_raw, printed, auditCalls, repairCalls, finalCalls, failed_at,
                   persistent, parseVars, memVars, srvVars, unitVars>>

\* Lines 183-216: the planner, then the selected stages of the first pass.
Plan ==
    /\ pc = "start"
    /\ \E planner_output \in PlannerOutputs :
        LET research == _as_bool(PlanFlag(planner_output, "use_research"))
            quant == _as_bool(PlanFlag(planner_output, "use_quant"))
            inputs == _normalize_quant_request(planner_output.quant_request, runtime_defaults)
        IN
        \E r \in (IF research THEN ResearchTexts ELSE {""}),
           q \in (IF ~quant THEN {""}
                  ELSE IF QuantInputsEmpty(inputs) THEN {SyntheticQuant}
                  ELSE QuantTexts) :
            /\ planner_output.t = "dict"
            /\ planner_output.plan # "str"
            /\ use_research' = research
            /\ use_quant' = quant
            /\ research_output' = r
            /\ researchCalls' = IF research THEN researchCalls + 1 ELSE researchCalls
            /\ quant_inputs' = IF quant THEN inputs ELSE quant_inputs
            /\ quant_output' = q
            /\ quantCalls' = IF quant /\ ~QuantInputsEmpty(inputs)
                             THEN quantCalls + 1 ELSE quantCalls
            /\ use_audit' = IF r # "" \/ q # "" THEN TRUE
                            ELSE _as_bool(GetOr(PlanFlag(planner_output, "use_audit"), JBool(TRUE)))
    /\ pc' = "audit"
    /\ UNCHANGED <<runtime_defaults, audit_output, audit_status, required_reruns, attempt,
                   final_raw, printed, auditCalls, repairCalls, finalCalls, failed_at,
                   persistent, parseVars, memVars, srvVars, unitVars>>

\* Lines 184-187: the planner's text makes _parse_json raise (184), parses
\* to something that is not an object (186), or holds a plan that is not
\* an object (187).
PlanFails ==
    /\ pc = "start"
    /\ \E planner_output \in PlannerOutputs :
        /\ planner_output.t # "dict" \/ planner_output.plan = "str"
        /\ failed_at' = IF planner_output.t = "raised" THEN 184
                        ELSE IF planner_output.t # "dict" THEN 186
                        ELSE 187
    /\ pc' = "failed"
    /\ UNCHANGED <<runtime_defaults, use_research, use_quant, use_audit, research_output,
                   quant_output, quant_inputs, audit_output, audit_status, required_reruns,
                   attempt, final_raw, printed, researchCalls, quantCalls, auditCalls,
                   repairCalls, finalCalls, persistent, parseVars, memVars, srvVars, unitVars>>

\* Lines 219-244: one pass through the head of the loop, up to the break.
Audit ==
    /\ pc = "audit"
    /\ \E verdict \in AuditOutputs :
        LET invoked == use_audit /\ (research_output # "" \/ quant_output # "")
            output == IF invoked THEN verdict ELSE NoAudit
        IN  /\ output.t # "raised"
            /\ audit_output' = output
            /\ auditCalls' = IF invoked THEN auditCalls + 1 ELSE auditCalls
            /\ audit_status' = AuditStatusOf(output)
            /\ required_reruns' = RequiredRerunsOf(output)
            /\ pc' = IF ShouldBreak(AuditStatusOf(output), RequiredRerunsOf(output))
                     THEN "final" ELSE "repair"
            /\ persistent' = (persistent /\ invoked /\ output.t = "dict"
                              /\ Upper(output.audit_status) = "REJECTED"
                              /\ output.required_reruns # {})
    /\ UNCHANGED <<runtime_defaults, use_research, use_quant, use_audit, research_output,
                   quant_output, quant_inputs, attempt, final_raw, printed, researchCalls,
                   quantCalls, repairCalls, finalCalls, failed_at, parseVars, memVars, srvVars, unitVars>>

\* Line 228: the auditor's text makes _parse_json raise.
AuditFails ==
    /\ pc = "audit"
    /\ use_audit /\ (research_output # "" \/ quant_output # "")
    /\ auditCalls' = auditCalls + 1
    /\ failed_at' = 228
    /\ pc' = "failed"
    /\ UNCHANGED <<runtime_defaults, use_research, use_quant, use_audit, research_output,
                   quant_output, quant_inputs, audit_output, audit_status, required_reruns,
                   attempt, final_raw, printed, researchCalls, quantCalls, repairCalls,
                   finalCalls, persistent, parseVars, memVars, srvVars, unitVars>>

\* Lines 246-271: the planner is asked to repair and the stages are rerun;
\* the for loop then starts its next iteration or is exhausted.
Repair ==
    /\ pc = "repair"
    /\ \E planner_output \in PlannerOutputs :
        LET research == _as_bool(PlanFlag(planner_output, "use_research"))
            quant == _as_bool(PlanFlag(planner_output, "use_quant"))
            inputs == _normalize_quant_request(planner_output.quant_request, runtime_defaults)
        IN
        \E r \in (IF RerunsStage("research", required_reruns, research)
                  THEN ResearchTexts ELSE {research_output}),
           q \in (IF RerunsStage("quant", required_reruns, quant)
                  THEN QuantTexts ELSE {quant_output}) :
            /\ planner_output.t # "raised"
            /\ ~(planner_output.t = "dict" /\ planner_output.plan = "str")
            /\ use_research' = research
            /\ use_quant' = quant
            /\ IF RerunsStage("research", required_reruns, research)
               THEN /\ research_output' = r
                    /\ researchCalls' = researchCalls + 1
               ELSE UNCHANGED <<research_output, researchCalls>>
            /\ IF RerunsStage("quant", required_reruns, quant)
               THEN /\ quant_inputs' = inputs
                    /\ quant_output' = q
                    /\ quantCalls' = quantCalls + 1
               ELSE UNCHANGED <<quant_inputs, quant_output, quantCalls>>
    /\ use_audit' = TRUE
    /\ repairCalls' = repairCalls + 1
    /\ attempt' = attempt + 1
    /\ pc' = IF attempt + 1 < max_retries + 1 THEN "audit" ELSE "final"
    /\ UNCHANGED <<runtime_defaults, audit_output, audit_status, required_reruns, final_raw,
                   printed, auditCalls, finalCalls, failed_at, persistent, parseVars, memVars, srvVars, unitVars>>

\* Lines 256-258: the repair plan's text makes _parse_json raise (256) or
\* holds a plan that is not an object (258).
RepairFails ==
    /\ pc = "repair"
    /\ \E planner_output \in PlannerOutputs :
        /\ planner_output.t = "raised" \/ (planner_output.t = "dict" /\ planner_output.plan = "str")
        /\ failed_at' = IF planner_output.t = "raised" THEN 256 ELSE 258
    /\ repairCalls' = repairCalls + 1
    /\ pc' = "failed"
    /\ UNCHANGED <<runtime_defaults, use_research, use_quant, use_audit, research_output,
                   quant_output, quant_inputs, audit_output, audit_status, required_reruns,
                   attempt, final_raw, printed, researchCalls, quantCalls, auditCalls,
                   finalCalls, persistent, parseVars, memVars, srvVars, unitVars>>

\* Lines 273-291: the final report and what the run prints.
FinalReport ==
    /\ pc = "final"
    /\ \E raw \in FinalRaws :
        /\ ~_parse_json(raw).raised
        /\ final_raw' = raw
        /\ printed' = PrintedText(raw)
    /\ finalCalls' = finalCalls + 1
    /\ pc' = "done"
    /\ UNCHANGED <<runtime_defaults, use_research, use_quant, use_audit, research_output,
                   quant_output, quant_inputs, audit_output, audit_status, required_reruns,
                   attempt, researchCalls, quantCalls, auditCalls, repairCalls, failed_at,
                   persistent, parseVars, memVars, srvVars, unitVars>>

\* Line 284: the final report's text makes _parse_json raise.
FinalReportFails ==
    /\ pc = "final"
    /\ \E raw \in FinalRaws :
        /\ _parse_json(raw).raised
        /\ final_raw' = raw
    /\ finalCalls' = finalCalls + 1
    /\ failed_at' = 284
    /\ pc' = "failed"
    /\ UNCHANGED <<runtime_defaults, use_research, use_quant, use_audit, research_output,
                   quant_output, quant_inputs, audit_output, audit_status, required_reruns,
                   attempt, printed, researchCalls, quantCalls, auditCalls, repairCalls,
                   persistent, parseVars, memVars, srvVars, unitVars>>

Next ==
    \/ Plan
    \/ PlanFails
    \/ Audit
    \/ AuditFails
    \/ Repair
    \/ RepairFails
    \/ FinalReport
    \/ FinalReportFails

Spec == Init /\ [][Next]_vars

TypeOK ==
    /\ pc \in {"start", "audit", "repair", "final", "done", "failed"}
    /\ attempt \in 0..(max_retries + 1)
    /\ research_output \in ResearchTexts
    /\ quant_output \in QuantTexts \cup {SyntheticQuant}
    /\ required_reruns \subseteq {"research", "quant"}

\* ------------------------------------- memory manager: vector-id allocation
MemInit ==
    /\ MainIdle
    /\ SrvIdle
    /\ UnitIdle
    /\ runtime_defaults = NoQuantRequest
    /\ ParseIdle
    /\ vector_seq = 0
    /\ faiss_ids = {}
    /\ embeddings = {}
    /\ callPc = [c \in Calls |-> "embed"]
    /\ vector_id = [c \in Calls |-> 0]
    /\ allocated = <<>>
    /\ content \in [Calls -> Contents]
    /\ openai_client \in BOOLEAN

\* An _embed that asks the provider to embed blank text too.
_embed_without_blank_check(txt, has_client, provider_raises) ==
    IF ~has_client THEN "None"
    ELSE IF provider_raises THEN "None"
    ELSE "vector"

\* MemoryManager._embed: None for blank text, for a missing client and for
\* any exception of the provider call, the normalised vector otherwise.
_embed(txt, has_client, provider_raises) ==
    IF Strip(txt) = <<>> THEN "None"
    ELSE IF ~has_client THEN "None"
    ELSE IF provider_raises THEN "None"
    ELSE "vector"

\* MemoryManager._embed returns a vector (line 491).
EmbedSucceeds(c) ==
    /\ callPc[c] = "embed"
    /\ _embed(content[c], openai_client, FALSE) = "vector"
    /\ callPc' = [callPc EXCEPT ![c] = "allocate"]
    /\ UNCHANGED <<vector_seq, faiss_ids, embeddings, vector_id, allocated, memInputs, mainVars, parseVars, srvVars, unitVars>>

\* MemoryManager._embed returns None and the call returns (lines 492-493).
EmbedFails(c) ==
    /\ callPc[c] = "embed"
    /\ \E provider_raises \in BOOLEAN :
        _embed(content[c], openai_client, provider_raises) = "None"
    /\ callPc' = [callPc EXCEPT ![c] = "skipped"]
    /\ UNCHANGED <<vector_seq, faiss_ids, embeddings, vector_id, allocated, memInputs, mainVars, parseVars, srvVars, unitVars>>

\* A next_vector_id that reads the counter without the $inc.
NextVectorIdWithoutInc(c) ==
    /\ callPc[c] = "allocate"
    /\ vector_id' = [vector_id EXCEPT ![c] = vector_seq]
    /\ allocated' = Append(allocated, vector_seq)
    /\ callPc' = [callPc EXCEPT ![c] = "add"]
    /\ UNCHANGED <<vector_seq, faiss_ids, embeddings, memInputs, mainVars, parseVars, srvVars, unitVars>>

\* MongoStore.next_vector_id: find_one_and_update with $inc and upsert is
\* one operation of the store; the document after the update is returned.
NextVectorId(c) ==
    /\ callPc[c] = "allocate"
    /\ vector_seq' = vector_seq + 1
    /\ vector_id' = [vector_id EXCEPT ![c] = vector_seq + 1]
    /\ allocated' = Append(allocated, vector_seq + 1)
    /\ callPc' = [callPc EXCEPT ![c] = "add"]
    /\ UNCHANGED <<faiss_ids, embeddings, memInputs, mainVars, parseVars, srvVars, unitVars>>

\* FaissIndex.add, under the index lock.
IndexAdd(c) ==
    /\ callPc[c] = "add"
    /\ faiss_ids' = faiss_ids \cup {vector_id[c]}
    /\ callPc' = [callPc EXCEPT ![c] = "save"]
    /\ UNCHANGED <<vector_seq, embeddings, vector_id, allocated, memInputs, mainVars, parseVars, srvVars, unitVars>>

\* A save_embedding_meta that replaces the collection's content by its record.
SaveEmbeddingMetaReplacing(c) ==
    /\ callPc[c] = "save"
    /\ embeddings' = {[vector_id |-> vector_id[c], message_id |-> c]}
    /\ callPc' = [callPc EXCEPT ![c] = "done"]
    /\ UNCHANGED <<vector_seq, faiss_ids, vector_id, allocated, memInputs, mainVars, parseVars, srvVars, unitVars>>

\* MongoStore.save_embedding_meta; the unique index on vector_id (line 307)
\* rejects a second record with the same id.
SaveEmbeddingMeta(c) ==
    /\ callPc[c] = "save"
    /\ IF \E e \in embeddings : e.vector_id = vector_id[c]
       THEN /\ callPc' = [callPc EXCEPT ![c] = "duplicate_key"]
            /\ UNCHANGED embeddings
       ELSE /\ embeddings' = embeddings \cup {[vector_id |-> vector_id[c], message_id |-> c]}
            /\ callPc' = [callPc EXCEPT ![c] = "done"]
    /\ UNCHANGED <<vector_seq, faiss_ids, vector_id, allocated, memInputs, mainVars, parseVars, srvVars, unitVars>>

\* An exception out of next_vector_id, FaissIndex.add or save_embedding_meta,
\* or the death of the process, ends the call where it stands: nothing in
\* add_message_embedding catches it or undoes the steps already taken.
Interrupted(c) ==
    /\ callPc[c] \in {"allocate", "add", "save"}
    /\ callPc' = [callPc EXCEPT ![c] = "interrupted"]
    /\ UNCHANGED <<vector_seq, faiss_ids, embeddings, vector_id, allocated, memInputs, mainVars, parseVars, srvVars, unitVars>>

MemNext ==
    \/ \E c \in Calls : EmbedSucceeds(c)
    \/ \E c \in Calls : EmbedFails(c)
    \/ \E c \in Calls : NextVectorId(c)
    \/ \E c \in Calls : IndexAdd(c)
    \/ \E c \in Calls : SaveEmbeddingMeta(c)
    \/ \E c \in Calls : Interrupted(c)

SpecMemory == MemInit /\ [][MemNext]_vars

\* ------------------------------------------- api_server: /chat, /chat/async
\* What crewai_event_bus.on(cls)(fn) may hand back to run_job (line 1260):
\* the function it registered, as a decorator does; a callable that removes
\* the registration, as run_job expects; or nothing.
OnReturns == {"handler", "unsubscribe", "none"}

UserMessage(r) == [req |-> r, role |-> "user"]
AssistantMessage(r) == [req |-> r, role |-> "assistant"]

\* The positions at which generate_stream is suspended at a yield.
AtYield == {"yield_event", "yield_final_event", "yield_heartbeat", "yield_terminal"}

\* A handler of stream h must wait: generate_stream holds the stream's lock
\* while it is suspended at the yield of lines 1071 and 1092.
HandlerBlocked(h) == endpoint[h] = "chat" /\ stream_lock[h]

\* emit_trace of every subscribed request h for an event of run r: the entry
\* is appended to the traces of h.
RecordedAfter(r) ==
    [h \in Reqs |-> IF h \in handlers THEN traces[h] \cup {r} ELSE traces[h]]

\* emit_trace of /chat: the frame is queued for the stream of h as well
\* (line 943); a frame is known by its run and its rank among the run's
\* events.
QueuedAfter(r) ==
    [h \in Reqs |-> IF h \in handlers /\ endpoint[h] = "chat"
                    THEN Append(events_to_send[h], [type |-> "trace", run |-> r, seq |-> emitted[r]])
                    ELSE events_to_send[h]]

\* The finally of run_job calls what on() returned for each subscription:
\* calling the registered lambda without arguments raises a TypeError.
UnsubRaises == on_returns = "handler"

\* The subscriptions left on the bus by the finally of run_job.
AfterUnsub(r) == IF on_returns = "unsubscribe" THEN handlers \ {r} ELSE handlers

ServerInit ==
    /\ MainIdle
    /\ runtime_defaults = NoQuantRequest
    /\ ParseIdle
    /\ MemIdle
    /\ SrvFresh
    /\ UnitIdle
    /\ on_returns \in OnReturns

\* chat and chat_async answer an empty or blank message with 400 and do
\* nothing else.
EmptyMessage(r) ==
    /\ endpoint[r] = "none"
    /\ \E ep \in {"chat", "async"}, message \in Contents :
        /\ Strip(message) = <<>>
        /\ endpoint' = [endpoint EXCEPT ![r] = ep]
    /\ http' = [http EXCEPT ![r] = 400]
    /\ UNCHANGED <<on_returns, worker, gen, client, stream_lock, events_to_send, traces,
                   execution_result, run_lock, jobs, messages, handlers, emitted, yielded,
                   mainVars, parseVars, memVars, unitVars>>

\* chat, lines 896-911 and 1153: the user message is stored and indexed, the
\* summary is built, and the streaming response is returned.
Chat(r) ==
    /\ endpoint[r] = "none"
    /\ \E message \in Contents : Strip(message) # <<>>
    /\ endpoint' = [endpoint EXCEPT ![r] = "chat"]
    /\ messages' = messages \cup {UserMessage(r)}
    /\ gen' = [gen EXCEPT ![r] = "created"]
    /\ http' = [http EXCEPT ![r] = 200]
    /\ UNCHANGED <<on_returns, worker, client, stream_lock, events_to_send, traces,
                   execution_result, run_lock, jobs, handlers, emitted, yielded,
                   mainVars, parseVars, memVars, unitVars>>

\* chat: the store, the index or the summary raises in lines 902-914, before
\* or after the user message was stored; the request ends with a 500.
ChatFails(r) ==
    /\ endpoint[r] = "none"
    /\ \E message \in Contents : Strip(message) # <<>>
    /\ endpoint' = [endpoint EXCEPT ![r] = "chat"]
    /\ \E stored \in BOOLEAN :
        messages' = IF stored THEN messages \cup {UserMessage(r)} ELSE messages
    /\ http' = [http EXCEPT ![r] = 500]
    /\ UNCHANGED <<on_returns, worker, gen, client, stream_lock, events_to_send, traces,
                   execution_result, run_lock, jobs, handlers, emitted, yielded,
                   mainVars, parseVars, memVars, unitVars>>

\* generate_stream up to the start of the pipeline thread (lines 922-1056):
\* the handlers are registered on the event bus and run_crew is started.
StreamStarts(r) ==
    /\ gen[r] = "created"
    /\ handlers' = handlers \cup {r}
    /\ worker' = [worker EXCEPT ![r] = "wait_lock"]
    /\ gen' = [gen EXCEPT ![r] = "poll"]
    /\ UNCHANGED <<on_returns, endpoint, http, client, stream_lock, events_to_send, traces,
                   execution_result, run_lock, jobs, messages, emitted, yielded,
                   mainVars, parseVars, memVars, unitVars>>

\* run_crew takes the run lock and builds the crew (lines 1038-1040).
RunCrewAcquires(r) ==
    /\ endpoint[r] = "chat"
    /\ worker[r] = "wait_lock"
    /\ run_lock = 0
    /\ run_lock' = r
    /\ worker' = [worker EXCEPT ![r] = "kickoff"]
    /\ UNCHANGED <<on_returns, endpoint, http, gen, client, stream_lock, events_to_send,
                   traces, execution_result, jobs, messages, handlers, emitted, yielded,
                   mainVars, parseVars, memVars, unitVars>>

\* run_crew: build_crew raises under the run lock; the lock is released and
\* the error is kept for the stream (lines 1038-1050).
RunCrewBuildFails(r) ==
    /\ endpoint[r] = "chat"
    /\ worker[r] = "wait_lock"
    /\ run_lock = 0
    /\ execution_result' = [execution_result EXCEPT ![r] = "error"]
    /\ worker' = [worker EXCEPT ![r] = "finished"]
    /\ UNCHANGED <<on_returns, endpoint, http, gen, client, stream_lock, events_to_send,
                   traces, run_lock, jobs, messages, handlers, emitted, yielded,
                   mainVars, parseVars, memVars, unitVars>>

\* crew.kickoff emits an event on the event bus; the bus starts calling the
\* handlers registered for it.
KickoffEmits(r) ==
    /\ worker[r] = "kickoff"
    /\ emitted[r] < MaxEvents
    /\ emitted' = [emitted EXCEPT ![r] = emitted[r] + 1]
    /\ worker' = [worker EXCEPT ![r] = "emitting"]
    /\ UNCHANGED <<on_returns, endpoint, http, gen, client, stream_lock, events_to_send,
                   traces, execution_result, run_lock, jobs, messages, handlers, yielded,
                   mainVars, parseVars, memVars, unitVars>>

\* The handlers on the bus run in the emitting thread: each emit_trace takes
\* its collector's lock, records the entry and, for a stream, queues a frame.
HandlersRun(r) ==
    /\ worker[r] = "emitting"
    /\ \A h \in handlers : ~HandlerBlocked(h)
    /\ traces' = RecordedAfter(r)
    /\ events_to_send' = QueuedAfter(r)
    /\ worker' = [worker EXCEPT ![r] = "kickoff"]
    /\ UNCHANGED <<on_returns, endpoint, http, gen, client, stream_lock, execution_result,
                   run_lock, jobs, messages, handlers, emitted, yielded,
                   mainVars, parseVars, memVars, unitVars>>

\* run_crew: a kickoff that returns without releasing the run lock.
RunCrewReturnsKeepingLock(r) ==
    /\ endpoint[r] = "chat"
    /\ worker[r] = "kickoff"
    /\ execution_result' = [execution_result EXCEPT ![r] = "result"]
    /\ worker' = [worker EXCEPT ![r] = "finished"]
    /\ UNCHANGED <<on_returns, endpoint, http, gen, client, stream_lock, events_to_send,
                   traces, run_lock, jobs, messages, handlers, emitted, yielded,
                   mainVars, parseVars, memVars, unitVars>>

\* run_crew: kickoff returns; the run lock is released, the result is kept
\* and execution_complete is set (lines 1041-1050).
RunCrewReturns(r) ==
    /\ endpoint[r] = "chat"
    /\ worker[r] = "kickoff"
    /\ run_lock' = 0
    /\ execution_result' = [execution_result EXCEPT ![r] = "result"]
    /\ worker' = [worker EXCEPT ![r] = "finished"]
    /\ UNCHANGED <<on_returns, endpoint, http, gen, client, stream_lock, events_to_send,
                   traces, jobs, messages, handlers, emitted, yielded,
                   mainVars, parseVars, memVars, unitVars>>

\* run_crew: kickoff raises; the run lock is released and the error text is
\* kept (lines 1041-1050).
RunCrewRaises(r) ==
    /\ endpoint[r] = "chat"
    /\ worker[r] = "kickoff"
    /\ run_lock' = 0
    /\ execution_result' = [execution_result EXCEPT ![r] = "error"]
    /\ worker' = [worker EXCEPT ![r] = "finished"]
    /\ UNCHANGED <<on_returns, endpoint, http, gen, client, stream_lock, events_to_send,
                   traces, jobs, messages, handlers, emitted, yielded,
                   mainVars, parseVars, memVars, unitVars>>

\* A generate_stream that, once the run is complete, joins the thread
\* without yielding the frames still queued.
StreamPollsWithoutFinalDrain(r) ==
    /\ gen[r] = "poll"
    /\ IF events_to_send[r] # <<>> /\ execution_result[r] = "none"
       THEN /\ events_to_send' = [events_to_send EXCEPT ![r] = Tail(events_to_send[r])]
            /\ yielded' = [yielded EXCEPT ![r] = Append(yielded[r], Head(events_to_send[r]))]
            /\ stream_lock' = [stream_lock EXCEPT ![r] = TRUE]
            /\ gen' = [gen EXCEPT ![r] = "yield_event"]
       ELSE /\ execution_result[r] # "none"
            /\ gen' = [gen EXCEPT ![r] = "join"]
            /\ UNCHANGED <<events_to_send, stream_lock, yielded>>
    /\ UNCHANGED <<on_returns, endpoint, http, worker, client, traces, execution_result,
                   run_lock, jobs, messages, handlers, emitted,
                   mainVars, parseVars, memVars, unitVars>>

\* generate_stream, one turn of the polling loop (lines 1064-1092): while
\* the run goes on the queued frames are yielded under the stream's lock;
\* once it is complete the remaining ones are, then the thread is joined.
StreamPolls(r) ==
    /\ gen[r] = "poll"
    /\ IF events_to_send[r] # <<>>
       THEN /\ events_to_send' = [events_to_send EXCEPT ![r] = Tail(events_to_send[r])]
            /\ yielded' = [yielded EXCEPT ![r] = Append(yielded[r], Head(events_to_send[r]))]
            /\ stream_lock' = [stream_lock EXCEPT ![r] = TRUE]
            /\ gen' = [gen EXCEPT ![r] = IF execution_result[r] = "none"
                                         THEN "yield_event" ELSE "yield_final_event"]
       ELSE /\ execution_result[r] # "none"
            /\ gen' = [gen EXCEPT ![r] = "join"]
            /\ UNCHANGED <<events_to_send, stream_lock, yielded>>
    /\ UNCHANGED <<on_returns, endpoint, http, worker, client, traces, execution_result,
                   run_lock, jobs, messages, handlers, emitted,
                   mainVars, parseVars, memVars, unitVars>>

\* generate_stream yields a heartbeat frame (lines 1074-1081).
StreamHeartbeat(r) ==
    /\ gen[r] = "poll"
    /\ execution_result[r] = "none"
    /\ gen' = [gen EXCEPT ![r] = "yield_heartbeat"]
    /\ UNCHANGED <<on_returns, endpoint, http, worker, client, stream_lock, events_to_send,
                   traces, execution_result, run_lock, jobs, messages, handlers, emitted,
                   yielded, mainVars, parseVars, memVars, unitVars>>

\* The server wrote the yielded frame and asks for the next one: the
\* generator goes on from its yield.
StreamResumes(r) ==
    /\ gen[r] \in AtYield
    /\ IF gen[r] \in {"yield_event", "yield_final_event"}
       THEN IF events_to_send[r] # <<>>
            THEN /\ events_to_send' = [events_to_send EXCEPT ![r] = Tail(events_to_send[r])]
                 /\ yielded' = [yielded EXCEPT ![r] = Append(yielded[r], Head(events_to_send[r]))]
                 /\ UNCHANGED <<gen, stream_lock>>
            ELSE /\ stream_lock' = [stream_lock EXCEPT ![r] = FALSE]
                 /\ gen' = [gen EXCEPT ![r] = IF gen[r] = "yield_event" THEN "poll" ELSE "join"]
                 /\ UNCHANGED <<events_to_send, yielded>>
       ELSE /\ gen' = [gen EXCEPT ![r] = IF gen[r] = "yield_heartbeat" THEN "poll" ELSE "returned"]
            /\ UNCHANGED <<events_to_send, stream_lock, yielded>>
    /\ UNCHANGED <<on_returns, endpoint, http, worker, client, traces, execution_result,
                   run_lock, jobs, messages, handlers, emitted,
                   mainVars, parseVars, memVars, unitVars>>

\* The client is gone and the server closes the generator: GeneratorExit is
\* raised at the yield, the with block releases the stream's lock, and
\* nothing after the yield runs.
StreamCloses(r) ==
    /\ gen[r] \in AtYield
    /\ client[r] = "gone"
    /\ stream_lock' = [stream_lock EXCEPT ![r] = FALSE]
    /\ gen' = [gen EXCEPT ![r] = "closed"]
    /\ UNCHANGED <<on_returns, endpoint, http, worker, client, events_to_send, traces,
                   execution_result, run_lock, jobs, messages, handlers, emitted, yielded,
                   mainVars, parseVars, memVars, unitVars>>

\* generate_stream after the join (lines 1095-1146): an error frame for a
\* failed run, else the assistant message is stored and indexed and the
\* response frame is yielded.
StreamFinishes(r) ==
    /\ gen[r] = "join"
    /\ worker[r] = "finished"
    /\ messages' = IF execution_result[r] = "result"
                   THEN messages \cup {AssistantMessage(r)} ELSE messages
    /\ yielded' = [yielded EXCEPT ![r] = Append(yielded[r],
                       [type |-> IF execution_result[r] = "result" THEN "response" ELSE "error",
                        run |-> r, seq |-> 0])]
    /\ gen' = [gen EXCEPT ![r] = "yield_terminal"]
    /\ UNCHANGED <<on_returns, endpoint, http, worker, client, stream_lock, events_to_send,
                   traces, execution_result, run_lock, jobs, handlers, emitted,
                   mainVars, parseVars, memVars, unitVars>>

\* generate_stream: storing or indexing the assistant message raises and an
\* error frame is yielded (lines 1112-1151).
StreamFinishFails(r) ==
    /\ gen[r] = "join"
    /\ worker[r] = "finished"
    /\ execution_result[r] = "result"
    /\ \E stored \in BOOLEAN :
        messages' = IF stored THEN messages \cup {AssistantMessage(r)} ELSE messages
    /\ yielded' = [yielded EXCEPT ![r] = Append(yielded[r], [type |-> "error", run |-> r, seq |-> 0])]
    /\ gen' = [gen EXCEPT ![r] = "yield_terminal"]
    /\ UNCHANGED <<on_returns, endpoint, http, worker, client, stream_lock, events_to_send,
                   traces, execution_result, run_lock, jobs, handlers, emitted,
                   mainVars, parseVars, memVars, unitVars>>

\* The client of a stream goes away.
ClientDisconnects(r) ==
    /\ endpoint[r] = "chat"
    /\ gen[r] \notin {"none", "returned", "closed"}
    /\ client[r] = "connected"
    /\ client' = [client EXCEPT ![r] = "gone"]
    /\ UNCHANGED <<on_returns, endpoint, http, worker, gen, stream_lock, events_to_send,
                   traces, execution_result, run_lock, jobs, messages, handlers, emitted,
                   yielded, mainVars, parseVars, memVars, unitVars>>

\* chat_async, lines 1167-1298: the job is created pending and its thread is
\* started.
ChatAsync(r) ==
    /\ endpoint[r] = "none"
    /\ \E message \in Contents : Strip(message) # <<>>
    /\ endpoint' = [endpoint EXCEPT ![r] = "async"]
    /\ jobs' = [jobs EXCEPT ![r] = [status |-> "pending", result |-> "", error |-> ""]]
    /\ worker' = [worker EXCEPT ![r] = "pending"]
    /\ http' = [http EXCEPT ![r] = 200]
    /\ UNCHANGED <<on_returns, gen, client, stream_lock, events_to_send, traces,
                   execution_result, run_lock, messages, handlers, emitted, yielded,
                   mainVars, parseVars, memVars, unitVars>>

\* run_job, lines 1197-1199.
RunJobStarts(r) ==
    /\ worker[r] = "pending"
    /\ jobs' = [jobs EXCEPT ![r].status = "running"]
    /\ worker' = [worker EXCEPT ![r] = "prepare"]
    /\ UNCHANGED <<on_returns, endpoint, http, gen, client, stream_lock, events_to_send,
                   traces, execution_result, run_lock, messages, handlers, emitted, yielded,
                   mainVars, parseVars, memVars, unitVars>>

\* run_job, lines 1204-1232: the user message is stored and indexed and the
\* summary is built.
RunJobPrepares(r) ==
    /\ worker[r] = "prepare"
    /\ messages' = messages \cup {UserMessage(r)}
    /\ worker' = [worker EXCEPT ![r] = "wait_lock"]
    /\ UNCHANGED <<on_returns, endpoint, http, gen, client, stream_lock, events_to_send,
                   traces, execution_result, run_lock, jobs, handlers, emitted, yielded,
                   mainVars, parseVars, memVars, unitVars>>

\* run_job: the store, the index or the summary raises in lines 1204-1208,
\* before or after the user message was stored (lines 1286-1293).
RunJobPrepareFails(r) ==
    /\ worker[r] = "prepare"
    /\ \E stored \in BOOLEAN :
        messages' = IF stored THEN messages \cup {UserMessage(r)} ELSE messages
    /\ jobs' = [jobs EXCEPT ![r].status = "failed", ![r].error = "StoreError"]
    /\ worker' = [worker EXCEPT ![r] = "finished"]
    /\ UNCHANGED <<on_returns, endpoint, http, gen, client, stream_lock, events_to_send,
                   traces, execution_result, run_lock, handlers, emitted, yielded,
                   mainVars, parseVars, memVars, unitVars>>

\* run_job starting its kickoff without the run lock.
RunJobAcquiresWithoutLock(r) ==
    /\ endpoint[r] = "async"
    /\ worker[r] = "wait_lock"
    /\ handlers' = handlers \cup {r}
    /\ worker' = [worker EXCEPT ![r] = "kickoff"]
    /\ UNCHANGED <<on_returns, endpoint, http, gen, client, stream_lock, events_to_send,
                   traces, execution_result, run_lock, jobs, messages, emitted, yielded,
                   mainVars, parseVars, memVars, unitVars>>

\* run_job takes the run lock, builds the crew and subscribes its callback
\* (lines 1235-1261).
RunJobAcquires(r) ==
    /\ endpoint[r] = "async"
    /\ worker[r] = "wait_lock"
    /\ run_lock = 0
    /\ run_lock' = r
    /\ handlers' = handlers \cup {r}
    /\ worker' = [worker EXCEPT ![r] = "kickoff"]
    /\ UNCHANGED <<on_returns, endpoint, http, gen, client, stream_lock, events_to_send,
                   traces, execution_result, jobs, messages, emitted, yielded,
                   mainVars, parseVars, memVars, unitVars>>

\* run_job: build_crew raises under the run lock, before anything is
\* subscribed (lines 1235-1236, 1286-1293).
RunJobBuildFails(r) ==
    /\ endpoint[r] = "async"
    /\ worker[r] = "wait_lock"
    /\ run_lock = 0
    /\ jobs' = [jobs EXCEPT ![r].status = "failed", ![r].error = "BuildError"]
    /\ worker' = [worker EXCEPT ![r] = "finished"]
    /\ UNCHANGED <<on_returns, endpoint, http, gen, client, stream_lock, events_to_send,
                   traces, execution_result, run_lock, messages, handlers, emitted, yielded,
                   mainVars, parseVars, memVars, unitVars>>

\* run_job: kickoff returns, the finally calls what on() returned and the
\* run lock is released (lines 1263-1269); an exception of the finally is
\* the job's failure (lines 1286-1293).
RunJobKickoffReturns(r) ==
    /\ endpoint[r] = "async"
    /\ worker[r] = "kickoff"
    /\ execution_result' = [execution_result EXCEPT ![r] = "result"]
    /\ handlers' = AfterUnsub(r)
    /\ run_lock' = 0
    /\ IF UnsubRaises
       THEN /\ jobs' = [jobs EXCEPT ![r].status = "failed", ![r].error = "TypeError"]
            /\ worker' = [worker EXCEPT ![r] = "finished"]
       ELSE /\ worker' = [worker EXCEPT ![r] = "store"]
            /\ UNCHANGED jobs
    /\ UNCHANGED <<on_returns, endpoint, http, gen, client, stream_lock, events_to_send,
                   traces, messages, emitted, yielded, mainVars, parseVars, memVars, unitVars>>

\* run_job: kickoff raises; the finally runs as above, an exception raised
\* in it replaces the one of the kickoff, and the job fails with the text of
\* the exception that reaches line 1286.
RunJobKickoffRaises(r) ==
    /\ endpoint[r] = "async"
    /\ worker[r] = "kickoff"
    /\ execution_result' = [execution_result EXCEPT ![r] = "error"]
    /\ handlers' = AfterUnsub(r)
    /\ run_lock' = 0
    /\ jobs' = [jobs EXCEPT ![r].status = "failed",
                            ![r].error = IF UnsubRaises THEN "TypeError" ELSE "StageError"]
    /\ worker' = [worker EXCEPT ![r] = "finished"]
    /\ UNCHANGED <<on_returns, endpoint, http, gen, client, stream_lock, events_to_send,
                   traces, messages, emitted, yielded, mainVars, parseVars, memVars, unitVars>>

\* run_job, lines 1272-1284: the assistant message is stored and indexed and
\* the job completes with its result.
RunJobStores(r) ==
    /\ worker[r] = "store"
    /\ messages' = messages \cup {AssistantMessage(r)}
    /\ jobs' = [jobs EXCEPT ![r].status = "completed", ![r].result = "reply"]
    /\ worker' = [worker EXCEPT ![r] = "finished"]
    /\ UNCHANGED <<on_returns, endpoint, http, gen, client, stream_lock, events_to_send,
                   traces, execution_result, run_lock, handlers, emitted, yielded,
                   mainVars, parseVars, memVars, unitVars>>

\* A run_job in which the failure of the store reaches line 1286 after the
\* job was marked completed.
RunJobStoreFailsAfterCompleted(r) ==
    /\ worker[r] = "store"
    /\ messages' = messages \cup {AssistantMessage(r)}
    /\ jobs' = [jobs EXCEPT ![r].status = IF jobs[r].status = "completed" THEN "failed" ELSE "completed",
                            ![r].error = IF jobs[r].status = "completed" THEN "StoreError" ELSE ""]
    /\ worker' = [worker EXCEPT ![r] = IF jobs[r].status = "completed" THEN "finished" ELSE "store"]
    /\ UNCHANGED <<on_returns, endpoint, http, gen, client, stream_lock, events_to_send,
                   traces, execution_result, run_lock, handlers, emitted, yielded,
                   mainVars, parseVars, memVars, unitVars>>

\* run_job: storing or indexing the assistant message raises (lines
\* 1274-1275, 1286-1293).
RunJobStoreFails(r) ==
    /\ worker[r] = "store"
    /\ \E stored \in BOOLEAN :
        messages' = IF stored THEN messages \cup {AssistantMessage(r)} ELSE messages
    /\ jobs' = [jobs EXCEPT ![r].status = "failed", ![r].error = "StoreError"]
    /\ worker' = [worker EXCEPT ![r] = "finished"]
    /\ UNCHANGED <<on_returns, endpoint, http, gen, client, stream_lock, events_to_send,
                   traces, execution_result, run_lock, handlers, emitted, yielded,
                   mainVars, parseVars, memVars, unitVars>>

\* A get_job_result that hands out the result field of any job it finds.
get_job_result_unchecked(r) ==
    IF jobs[r].status = "none" THEN [code |-> 404, body |-> ""]
    ELSE [code |-> 200, body |-> jobs[r].result]

\* get_job_result: 404 for an unknown job, 425 for a pending or running one,
\* 500 with the error for a failed one, 200 with the result otherwise.
get_job_result(r) ==
    IF jobs[r].status = "none" THEN [code |-> 404, body |-> ""]
    ELSE IF jobs[r].status \in {"pending", "running"} THEN [code |-> 425, body |-> ""]
    ELSE IF jobs[r].status = "failed" THEN [code |-> 500, body |-> jobs[r].error]
    ELSE [code |-> 200, body |-> jobs[r].result]

ServerNext ==
    \/ \E r \in Reqs : EmptyMessage(r)
    \/ \E r \in Reqs : Chat(r)
    \/ \E r \in Reqs : ChatFails(r)
    \/ \E r \in Reqs : StreamStarts(r)
    \/ \E r \in Reqs : RunCrewAcquires(r)
    \/ \E r \in Reqs : RunCrewBuildFails(r)
    \/ \E r \in Reqs : KickoffEmits(r)
    \/ \E r \in Reqs : HandlersRun(r)
    \/ \E r \in Reqs : RunCrewReturns(r)
    \/ \E r \in Reqs : RunCrewRaises(r)
    \/ \E r \in Reqs : StreamPolls(r)
    \/ \E r \in Reqs : StreamHeartbeat(r)
    \/ \E r \in Reqs : StreamResumes(r)
    \/ \E r \in Reqs : StreamCloses(r)
    \/ \E r \in Reqs : StreamFinishes(r)
    \/ \E r \in Reqs : StreamFinishFails(r)
    \/ \E r \in Reqs : ClientDisconnects(r)
    \/ \E r \in Reqs : ChatAsync(r)
    \/ \E r \in Reqs : RunJobStarts(r)
    \/ \E r \in Reqs : RunJobPrepares(r)
    \/ \E r \in Reqs : RunJobPrepareFails(r)
    \/ \E r \in Reqs : RunJobAcquires(r)
    \/ \E r \in Reqs : RunJobBuildFails(r)
    \/ \E r \in Reqs : RunJobKickoffReturns(r)
    \/ \E r \in Reqs : RunJobKickoffRaises(r)
    \/ \E r \in Reqs : RunJobStores(r)
    \/ \E r \in Reqs : RunJobStoreFails(r)

ServerSpec == ServerInit /\ [][ServerNext]_vars

\* Every started thread keeps being scheduled: a thread that can take its
\* next step takes it; a kickoff returns or raises; the server writes each
\* yielded frame and then asks the generator for the next one or closes it.
ServerFairness ==
    \A r \in Reqs :
        /\ WF_vars(StreamStarts(r))
        /\ WF_vars(RunCrewAcquires(r) \/ RunCrewBuildFails(r))
        /\ WF_vars(HandlersRun(r))
        /\ WF_vars(RunCrewReturns(r) \/ RunCrewRaises(r))
        /\ WF_vars(StreamPolls(r))
        /\ WF_vars(StreamResumes(r) \/ StreamCloses(r))
        /\ WF_vars(StreamFinishes(r) \/ StreamFinishFails(r))
        /\ WF_vars(RunJobStarts(r))
        /\ WF_vars(RunJobPrepares(r) \/ RunJobPrepareFails(r))
        /\ WF_vars(RunJobAcquires(r) \/ RunJobBuildFails(r))
        /\ WF_vars(RunJobKickoffReturns(r) \/ RunJobKickoffRaises(r))
        /\ WF_vars(RunJobStores(r) \/ RunJobStoreFails(r))

FairServerSpec == ServerSpec /\ ServerFairness

\* ------------------------------------------------ api_server: FaissIndex
\* The dimensions of the vectors passed to add: that of the embedding model
\* in use, which the environment names (line 466).
Dims == {1, 2}

\* FaissIndex.__init__ on a path where a previous run left a complete file
\* (here with vector id 0, of dimension 1), or no file: _load reads it if it
\* exists.
FaissInit ==
    /\ MainIdle
    /\ runtime_defaults = NoQuantRequest
    /\ ParseIdle
    /\ MemIdle
    /\ SrvIdle
    /\ RecallIdle
    /\ ThreadsIdle
    /\ CrewIdle
    /\ NormIdle
    /\ index_path \in {NoFile, FileOf({0})}
    /\ index = _load(index_path)
    /\ index_d = IF index_path = NoFile THEN 0 ELSE 1
    /\ vector_d = [t \in Threads |-> 0]
    /\ index_lock = 0
    /\ tpc = [t \in Threads |-> "idle"]
    /\ found = [t \in Threads |-> {}]
    /\ crashed = FALSE

\* add entered without waiting for the lock.
AddAcquiresWithoutLock(t) ==
    /\ ~crashed
    /\ tpc[t] = "idle"
    /\ index_lock' = t
    /\ \E d \in Dims : vector_d' = [vector_d EXCEPT ![t] = d]
    /\ tpc' = [tpc EXCEPT ![t] = "add_locked"]
    /\ UNCHANGED <<index, index_d, index_path, found, crashed, mainVars, parseVars, memVars,
                   srvVars, recallVars, threadVars, crewVars, normVars>>

\* add, line 449: the thread enters the with block.
AddAcquires(t) ==
    /\ ~crashed
    /\ tpc[t] = "idle"
    /\ index_lock = 0
    /\ index_lock' = t
    /\ \E d \in Dims : vector_d' = [vector_d EXCEPT ![t] = d]
    /\ tpc' = [tpc EXCEPT ![t] = "add_locked"]
    /\ UNCHANGED <<index, index_d, index_path, found, crashed, mainVars, parseVars, memVars,
                   srvVars, recallVars, threadVars, crewVars, normVars>>

\* add, lines 450-452: _init on the first insertion, with the dimension of
\* the vector, then add_with_ids; the vector id of thread t is t.
AddWithIds(t) ==
    /\ ~crashed
    /\ tpc[t] = "add_locked"
    /\ index.is_none \/ vector_d[t] = index_d
    /\ index' = [is_none |-> FALSE, ids |-> index.ids \cup {t}]
    /\ index_d' = IF index.is_none THEN vector_d[t] ELSE index_d
    /\ tpc' = [tpc EXCEPT ![t] = "add_added"]
    /\ UNCHANGED <<index_lock, index_path, vector_d, found, crashed, mainVars, parseVars,
                   memVars, srvVars, recallVars, threadVars, crewVars, normVars>>

\* add, line 452: add has no check of its own; add_with_ids refuses a vector
\* whose dimension is not the index's with the AssertionError of the faiss
\* wrapper, and the with block releases the lock.
AddWithIdsRaises(t) ==
    /\ ~crashed
    /\ tpc[t] = "add_locked"
    /\ ~index.is_none /\ vector_d[t] # index_d
    /\ index_lock' = 0
    /\ tpc' = [tpc EXCEPT ![t] = "AssertionError"]
    /\ UNCHANGED <<index, index_d, index_path, vector_d, found, crashed, mainVars, parseVars,
                   memVars, srvVars, recallVars, threadVars, crewVars, normVars>>

\* add, line 453: faiss.write_index opens the file at index_path for writing,
\* which truncates it, and writes the index into it piece by piece.
WriteIndexBegins(t) ==
    /\ ~crashed
    /\ tpc[t] = "add_added"
    /\ index_path' = [state |-> "partial", ids |-> {}]
    /\ tpc' = [tpc EXCEPT ![t] = "add_writing"]
    /\ UNCHANGED <<index_lock, index, index_d, vector_d, found, crashed, mainVars, parseVars,
                   memVars, srvVars, recallVars, threadVars, crewVars, normVars>>

\* add, line 453: write_index returns and the with block releases the lock.
WriteIndexCompletes(t) ==
    /\ ~crashed
    /\ tpc[t] = "add_writing"
    /\ index_path' = FileOf(index.ids)
    /\ index_lock' = 0
    /\ tpc' = [tpc EXCEPT ![t] = "done"]
    /\ UNCHANGED <<index, index_d, vector_d, found, crashed, mainVars, parseVars, memVars,
                   srvVars, recallVars, threadVars, crewVars, normVars>>

\* search, line 456: the thread enters the with block.
SearchAcquires(t) ==
    /\ ~crashed
    /\ tpc[t] = "idle"
    /\ index_lock = 0
    /\ index_lock' = t
    /\ tpc' = [tpc EXCEPT ![t] = "search_locked"]
    /\ UNCHANGED <<index, index_d, index_path, vector_d, found, crashed, mainVars, parseVars,
                   memVars, srvVars, recallVars, threadVars, crewVars, normVars>>

\* search, lines 457-460: nothing for a missing or empty index, else the ids
\* read from the index; the with block releases the lock.
SearchReturns(t) ==
    /\ ~crashed
    /\ tpc[t] = "search_locked"
    /\ found' = [found EXCEPT ![t] = IF index.is_none \/ index.ids = {} THEN {} ELSE index.ids]
    /\ index_lock' = 0
    /\ tpc' = [tpc EXCEPT ![t] = "done"]
    /\ UNCHANGED <<index, index_d, index_path, vector_d, crashed, mainVars, parseVars, memVars,
                   srvVars, recallVars, threadVars, crewVars, normVars>>

\* The process dies: the memory is lost, the file stays as it is.
Crash ==
    /\ ~crashed
    /\ crashed' = TRUE
    /\ UNCHANGED <<index_lock, index, index_d, index_path, vector_d, tpc, found, mainVars,
                   parseVars, memVars, srvVars, recallVars, threadVars, crewVars, normVars>>

FaissNext ==
    \/ \E t \in Threads :
          \/ AddAcquires(t) \/ AddWithIds(t) \/ AddWithIdsRaises(t) \/ WriteIndexBegins(t) \/ WriteIndexCompletes(t)
          \/ SearchAcquires(t) \/ SearchReturns(t)
    \/ Crash

FaissSpec == FaissInit /\ [][FaissNext]_vars

\* ------------------------------- api_server: search_related, build_summary
\* The messages added: two texts in one thread, one of them in another thread
\* as well (a message has a text that is not blank, lines 897-899).
MessageKinds ==
    { [threadId |-> 1, content |-> <<"p">>], [threadId |-> 1, content |-> <<"k">>],
      [threadId |-> 2, content |-> <<"p">>] }

ThreadIds == {1, 2}
QueryTexts == {<<"p">>, <<"k">>, <<" ">>}

Min(a, b) == IF a <= b THEN a ELSE b
Range(s) == {s[i] : i \in DOMAIN s}
Reverse(s) == [i \in 1..Len(s) |-> s[Len(s) + 1 - i]]

\* The inner product of two L2-normalised embeddings (lines 486-487): greatest
\* for the same text.
Score(a, b) == IF a = b THEN 2 ELSE 1

\* The id the index fills a result with when it holds fewer than top_k vectors
\* (the score that goes with it, here 0, is below every score).
NoId == -1

RecallInit ==
    /\ MainIdle
    /\ runtime_defaults = NoQuantRequest
    /\ ParseIdle
    /\ MemIdle
    /\ SrvIdle
    /\ IndexIdle
    /\ ThreadsIdle
    /\ CrewIdle
    /\ NormIdle
    /\ RecallIdle

\* chat, lines 907-908: add_message stores the message, add_message_embedding
\* embeds it, takes the next vector id, adds the vector to the index and saves
\* the EmbeddingRecord; a message whose text is blank gets no vector.
AddMessage(m) ==
    /\ spc = "filling"
    /\ Len(mongo_messages) < MaxMessages
    /\ mongo_messages' = Append(mongo_messages, m)
    /\ IF _embed(m.content, TRUE, FALSE) = "None"
       THEN UNCHANGED <<faiss_vectors, mongo_embeddings>>
       ELSE /\ faiss_vectors' = Append(faiss_vectors, m.content)
            /\ mongo_embeddings' = mongo_embeddings \cup
                   { [vector_id |-> Len(faiss_vectors) + 1,
                      message_id |-> Len(mongo_messages) + 1,
                      threadId |-> m.threadId] }
    /\ UNCHANGED <<spc, asked, related, summary, mainVars, parseVars, memVars, srvVars,
                   indexVars, threadVars, crewVars, normVars>>

\* The ids of ks ordered as the index reports them: by descending score.
RECURSIVE ByScore(_, _)
ByScore(ks, query) ==
    IF ks = {} THEN <<>>
    ELSE LET best == CHOOSE i \in ks : \A j \in ks :
                         \/ Score(query, faiss_vectors[i]) > Score(query, faiss_vectors[j])
                         \/ Score(query, faiss_vectors[i]) = Score(query, faiss_vectors[j]) /\ i <= j
         IN  <<best>> \o ByScore(ks \ {best}, query)

\* FaissIndex.search without the guard of lines 457-458.
FaissSearchUnguarded(query, top_k) ==
    LET n == Len(faiss_vectors)
        score == [i \in 1..n |-> Score(query, faiss_vectors[i])]
        tops == { ks \in SUBSET (1..n) :
                    /\ Cardinality(ks) = Min(top_k, n)
                    /\ \A i \in ks, j \in (1..n) \ ks : score[i] >= score[j] }
        result(ks) ==
            LET ids == ByScore(ks, query)
            IN  [ids |-> [i \in 1..top_k |-> IF i <= Len(ids) THEN ids[i] ELSE NoId],
                 scores |-> [i \in 1..top_k |-> IF i <= Len(ids) THEN score[ids[i]] ELSE 0]]
    IN  { result(ks) : ks \in tops }

\* FaissIndex.search, lines 455-460: the results the index may give. It holds
\* the top_k best vectors, in descending score order, filled up with id -1;
\* which of several vectors with the lowest retained score it retains is up
\* to the index.
FaissSearch(query, top_k) ==
    LET n == Len(faiss_vectors)
        score == [i \in 1..n |-> Score(query, faiss_vectors[i])]
        tops == { ks \in SUBSET (1..n) :
                    /\ Cardinality(ks) = Min(top_k, n)
                    /\ \A i \in ks, j \in (1..n) \ ks : score[i] >= score[j] }
        result(ks) ==
            LET ids == ByScore(ks, query)
            IN  [ids |-> [i \in 1..top_k |-> IF i <= Len(ids) THEN ids[i] ELSE NoId],
                 scores |-> [i \in 1..top_k |-> IF i <= Len(ids) THEN score[ids[i]] ELSE 0]]
    IN  IF n = 0 THEN { [ids |-> <<>>, scores |-> <<>>] }
        ELSE { result(ks) : ks \in tops }

\* The result of the index for a query; the index is not asked when the query
\* cannot be embedded (lines 501-503).
Hits(query, top_k) ==
    IF _embed(query, TRUE, FALSE) = "None" THEN { [ids |-> <<>>, scores |-> <<>>] }
    ELSE FaissSearch(query, top_k)

\* search_related without the filter on the thread (line 506).
search_related_any_thread(thread_id, query, top_k, hit) ==
    LET ids == SelectSeq(hit.ids, LAMBDA v : v # NoId)
        meta == { e \in mongo_embeddings : e.vector_id \in Range(ids) }
        pairs == [i \in 1..Min(Len(ids), Len(hit.scores)) |-> <<ids[i], hit.scores[i]>>]
        kept == SelectSeq(pairs, LAMBDA p :
                    \E e \in meta : e.vector_id = p[1] /\ e.message_id \in DOMAIN mongo_messages)
    IN  IF _embed(query, TRUE, FALSE) = "None" THEN <<>>
        ELSE [i \in 1..Len(kept) |->
                 [message_id |-> (CHOOSE e \in meta : e.vector_id = kept[i][1]).message_id,
                  score |-> kept[i][2]]]

\* search_related, lines 498-527, for the result hit of the index: drop the
\* ids -1, fetch the records of the thread and their messages, and pair ids
\* and scores position by position, skipping the ids with no record or message.
search_related(thread_id, query, top_k, hit) ==
    LET ids == SelectSeq(hit.ids, LAMBDA v : v # NoId)
        meta == { e \in mongo_embeddings : e.vector_id \in Range(ids) /\ e.threadId = thread_id }
        pairs == [i \in 1..Min(Len(ids), Len(hit.scores)) |-> <<ids[i], hit.scores[i]>>]
        kept == SelectSeq(pairs, LAMBDA p :
                    \E e \in meta : e.vector_id = p[1] /\ e.message_id \in DOMAIN mongo_messages)
    IN  IF _embed(query, TRUE, FALSE) = "None" THEN <<>>
        ELSE [i \in 1..Len(kept) |->
                 [message_id |-> (CHOOSE e \in meta : e.vector_id = kept[i][1]).message_id,
                  score |-> kept[i][2]]]

\* list_messages without the filter on the thread.
list_messages_any_thread(thread_id, limit, newest_first) ==
    LET mine == [i \in 1..Len(mongo_messages) |-> i]
        sorted == IF newest_first THEN Reverse(mine) ELSE mine
    IN  SubSeq(sorted, 1, Min(limit, Len(sorted)))

\* list_messages sorted by the oldest first before the limit is applied.
list_messages_oldest(thread_id, limit, newest_first) ==
    LET mine == SelectSeq([i \in 1..Len(mongo_messages) |-> i],
                          LAMBDA i : mongo_messages[i].threadId = thread_id)
    IN  SubSeq(mine, 1, Min(limit, Len(mine)))

\* MongoStore.list_messages, lines 364-373: the ids of the thread's messages
\* sorted by createdAt, the newest first if asked, cut at limit.
list_messages(thread_id, limit, newest_first) ==
    LET mine == SelectSeq([i \in 1..Len(mongo_messages) |-> i],
                          LAMBDA i : mongo_messages[i].threadId = thread_id)
        sorted == IF newest_first THEN Reverse(mine) ELSE mine
    IN  SubSeq(sorted, 1, Min(limit, Len(sorted)))

RecentLine(i) == [section |-> "recent", message_id |-> i]
RelatedLine(i) == [section |-> "related", message_id |-> i]
RecentHeader == [section |-> "recent", message_id |-> 0]
RelatedHeader == [section |-> "related", message_id |-> 0]

\* build_summary without the seen set (lines 533, 544-545).
build_summary_without_seen(thread_id, query, hit) ==
    LET recent == Reverse(list_messages(thread_id, recent_limit, TRUE))
        found_related == search_related(thread_id, query, related_top_k, hit)
    IN  (IF recent = <<>> THEN <<>>
         ELSE <<RecentHeader>> \o [i \in 1..Len(recent) |-> RecentLine(recent[i])])
        \o
        (IF found_related = <<>> THEN <<>>
         ELSE <<RelatedHeader>> \o
              [i \in 1..Len(found_related) |-> RelatedLine(found_related[i].message_id)])

\* build_summary, lines 529-549: the lines of the text, in order (the text is
\* the lines joined and stripped, the empty string when there is none).
build_summary(thread_id, query, hit) ==
    LET recent == Reverse(list_messages(thread_id, recent_limit, TRUE))
        found_related == search_related(thread_id, query, related_top_k, hit)
        seen == Range(recent)
        fresh == SelectSeq(found_related, LAMBDA item : item.message_id \notin seen)
    IN  (IF recent = <<>> THEN <<>>
         ELSE <<RecentHeader>> \o [i \in 1..Len(recent) |-> RecentLine(recent[i])])
        \o
        (IF found_related = <<>> THEN <<>>
         ELSE <<RelatedHeader>> \o [i \in 1..Len(fresh) |-> RelatedLine(fresh[i].message_id)])

\* chat, line 910: build_summary for a thread and a query; related keeps what
\* its search_related call returned.
BuildSummary(thread_id, query) ==
    /\ spc = "filling"
    /\ \E hit \in Hits(query, related_top_k) :
          /\ related' = search_related(thread_id, query, related_top_k, hit)
          /\ summary' = build_summary(thread_id, query, hit)
    /\ asked' = [thread_id |-> thread_id, query |-> query, top_k |-> related_top_k]
    /\ spc' = "summarised"
    /\ UNCHANGED <<mongo_messages, mongo_embeddings, faiss_vectors, mainVars, parseVars,
                   memVars, srvVars, indexVars, threadVars, crewVars, normVars>>

\* chat, line 914: search_related with top_k=3 for the trace of the request.
SearchRelated(thread_id, query) ==
    /\ spc = "filling"
    /\ \E hit \in Hits(query, chat_top_k) :
          related' = search_related(thread_id, query, chat_top_k, hit)
    /\ asked' = [thread_id |-> thread_id, query |-> query, top_k |-> chat_top_k]
    /\ spc' = "searched"
    /\ UNCHANGED <<mongo_messages, mongo_embeddings, faiss_vectors, summary, mainVars,
                   parseVars, memVars, srvVars, indexVars, threadVars, crewVars, normVars>>

RecallNext ==
    \/ \E m \in MessageKinds : AddMessage(m)
    \/ \E thread_id \in ThreadIds, query \in QueryTexts :
          \/ BuildSummary(thread_id, query)
          \/ SearchRelated(thread_id, query)

RecallSpec == RecallInit /\ [][RecallNext]_vars

\* ------------------------------------- api_server: threads and messages
\* The threadId values a request may carry: none (0 stands for the empty
\* string), one no thread has (-1), or the id of a thread.
SuppliedIds == {0, -1} \cup threads

ThreadsInit ==
    /\ MainIdle
    /\ runtime_defaults = NoQuantRequest
    /\ ParseIdle
    /\ MemIdle
    /\ SrvIdle
    /\ IndexIdle
    /\ RecallIdle
    /\ CrewIdle
    /\ NormIdle
    /\ ThreadsIdle

\* chat, lines 896-901, and chat_async, lines 1167-1172: a request with a
\* message and a threadId arrives.
Post(r, e, supplied) ==
    /\ posted[r].at = "none"
    /\ \E message \in Contents : Strip(message) # <<>>
    /\ posted' = [posted EXCEPT ![r] = [endpoint |-> e, supplied |-> supplied,
                                        thread_id |-> supplied, at |-> "get_thread"]]
    /\ UNCHANGED <<threads, message_log, mainVars, parseVars, memVars, srvVars, indexVars,
                   recallVars, crewVars, normVars>>

\* chat, lines 897-899, and chat_async, lines 1168-1170: a request whose
\* message is empty once stripped is answered with 400 at once.
PostEmptyMessage(r, e, supplied) ==
    /\ posted[r].at = "none"
    /\ \E message \in Contents : Strip(message) = <<>>
    /\ posted' = [posted EXCEPT ![r] = [endpoint |-> e, supplied |-> supplied,
                                        thread_id |-> supplied, at |-> "400"]]
    /\ UNCHANGED <<threads, message_log, mainVars, parseVars, memVars, srvVars, indexVars,
                   recallVars, crewVars, normVars>>

\* The lookup skipped: the supplied threadId is kept as it is.
GetThreadUnchecked(r) ==
    /\ posted[r].at = "get_thread"
    /\ posted' = [posted EXCEPT ![r].at = "create_thread"]
    /\ UNCHANGED <<threads, message_log, mainVars, parseVars, memVars, srvVars, indexVars,
                   recallVars, crewVars, normVars>>

\* Lines 902-903 and 1173-1174: a threadId that no thread has is dropped.
GetThread(r) ==
    /\ posted[r].at = "get_thread"
    /\ posted' = [posted EXCEPT ![r].thread_id =
                                    IF @ # 0 /\ @ \notin threads THEN 0 ELSE @,
                                ![r].at = "create_thread"]
    /\ UNCHANGED <<threads, message_log, mainVars, parseVars, memVars, srvVars, indexVars,
                   recallVars, crewVars, normVars>>

\* Lines 904-905 and 1175-1176: with no threadId left, create_thread inserts
\* a thread with a new id and the request takes it.
CreateThread(r) ==
    /\ posted[r].at = "create_thread"
    /\ IF posted[r].thread_id = 0
       THEN /\ threads' = threads \cup {Cardinality(threads) + 1}
            /\ posted' = [posted EXCEPT ![r].thread_id = Cardinality(threads) + 1,
                                        ![r].at = "add_user"]
       ELSE /\ posted' = [posted EXCEPT ![r].at = "add_user"]
            /\ UNCHANGED threads
    /\ UNCHANGED <<message_log, mainVars, parseVars, memVars, srvVars, indexVars, recallVars,
                   crewVars, normVars>>

\* chat, line 907, and run_job, line 1204: add_message inserts the user's
\* message under the request's thread_id.
AddUserMessage(r) ==
    /\ posted[r].at = "add_user"
    /\ message_log' = Append(message_log, [threadId |-> posted[r].thread_id, role |-> "user", content |-> r])
    /\ posted' = [posted EXCEPT ![r].at = "run"]
    /\ UNCHANGED <<threads, mainVars, parseVars, memVars, srvVars, indexVars, recallVars,
                   crewVars, normVars>>

\* generate_stream, line 1118, and run_job, line 1274: add_message inserts
\* the assistant's reply under the same thread_id.
AddAssistantMessage(r) ==
    /\ posted[r].at = "run"
    /\ message_log' = Append(message_log, [threadId |-> posted[r].thread_id, role |-> "assistant", content |-> r])
    /\ posted' = [posted EXCEPT ![r].at = "done"]
    /\ UNCHANGED <<threads, mainVars, parseVars, memVars, srvVars, indexVars, recallVars,
                   crewVars, normVars>>

\* The run fails, or the stream is abandoned, before the reply is message_log.
RunEndsWithoutReply(r) ==
    /\ posted[r].at = "run"
    /\ posted' = [posted EXCEPT ![r].at = "done"]
    /\ UNCHANGED <<threads, message_log, mainVars, parseVars, memVars, srvVars, indexVars,
                   recallVars, crewVars, normVars>>

ThreadsNext ==
    \E r \in Reqs :
        \/ \E e \in {"chat", "chat_async"}, supplied \in SuppliedIds : Post(r, e, supplied)
        \/ \E e \in {"chat", "chat_async"}, supplied \in SuppliedIds : PostEmptyMessage(r, e, supplied)
        \/ GetThread(r) \/ CreateThread(r)
        \/ AddUserMessage(r) \/ AddAssistantMessage(r) \/ RunEndsWithoutReply(r)

ThreadsSpec == ThreadsInit /\ [][ThreadsNext]_vars

\* ------------------------------------------------------ crew: build_crew
\* build_crew, lines 138-147: the stages in their fixed order, under the names
\* task_map gives them (lines 149-158; "audit" is the audit of the final draft).
full_order ==
    <<"planner", "research", "audit_research", "quant", "audit_quant",
      "final_draft", "audit", "final_report">>

task_map == {full_order[i] : i \in DOMAIN full_order}

\* The names a caller passes: those of task_map and one it does not have.
RECURSIVE NameLists(_)
NameLists(n) ==
    IF n = 0 THEN {<<>>}
    ELSE LET shorter == NameLists(n - 1)
         IN  shorter \cup {Append(s, t) : s \in {x \in shorter : Len(x) = n - 1},
                                          t \in task_map \cup {"unknown"}}

\* The position of a stage in the fixed order.
OrderOf(stage) == CHOOSE i \in DOMAIN full_order : full_order[i] = stage

\* _build_search_tool, lines 240-245: a tool if one of the keys is set, else
\* ValueError.
_build_search_tool(keys) ==
    IF keys.SERPAPI_API_KEY THEN "SerpApiGoogleSearchTool"
    ELSE IF keys.SERPER_API_KEY THEN "SerperDevTool"
    ELSE "ValueError"

\* build_crew, lines 126-232. All eight tasks are constructed first (lines
\* 129-136); research_news_task constructs the researcher (line 58), which
\* builds the search tool (line 21). Then the names are checked and the tasks
\* selected in the order of task_names (lines 159-165); the contexts are
\* assigned only if the selection has all eight tasks (lines 167-200), and a
\* task is constructed with none (lines 54-124). The agents the crew lists
\* (lines 202-221) do not bear on its tasks.
build_crew(names, keys) ==
    IF _build_search_tool(keys) = "ValueError"
    THEN [NotBuilt EXCEPT !.state = "raised", !.error = "search_key"]
    ELSE IF names.given /\ \E i \in DOMAIN names.names : names.names[i] \notin task_map
    THEN [NotBuilt EXCEPT !.state = "raised", !.error = "unknown_task"]
    ELSE LET selected_tasks == IF names.given /\ names.names # <<>> THEN names.names ELSE full_order
             all_selected == {selected_tasks[i] : i \in DOMAIN selected_tasks} = task_map
         IN  [state |-> "built",
              error |-> "",
              tasks |-> selected_tasks,
              context |-> [s \in task_map |->
                              IF all_selected
                              THEN {t \in task_map : OrderOf(t) < OrderOf(s)}
                              ELSE {}]]

\* The arguments and the environment of a call: no names (the crew method,
\* line 237), a list of up to MaxNames names, or all the names in order.
CrewInit ==
    /\ MainIdle
    /\ runtime_defaults = NoQuantRequest
    /\ ParseIdle
    /\ MemIdle
    /\ SrvIdle
    /\ IndexIdle
    /\ RecallIdle
    /\ ThreadsIdle
    /\ NormIdle
    /\ task_names \in {[given |-> FALSE, names |-> <<>>], [given |-> TRUE, names |-> full_order]}
                      \cup {[given |-> TRUE, names |-> l] : l \in NameLists(MaxNames)}
    /\ search_keys \in [SERPAPI_API_KEY : BOOLEAN, SERPER_API_KEY : BOOLEAN]
    /\ built = NotBuilt
    /\ kicked_off = FALSE

\* _run_task, line 80, and crew, line 237: build_crew returns a crew.
BuildCrew ==
    /\ built.state = "none"
    /\ build_crew(task_names, search_keys).state = "built"
    /\ built' = build_crew(task_names, search_keys)
    /\ UNCHANGED <<task_names, search_keys, kicked_off, mainVars, parseVars, memVars, srvVars,
                   indexVars, recallVars, threadVars, normVars>>

\* build_crew raises ValueError: no stage has run.
BuildCrewRaises ==
    /\ built.state = "none"
    /\ build_crew(task_names, search_keys).state = "raised"
    /\ built' = build_crew(task_names, search_keys)
    /\ UNCHANGED <<task_names, search_keys, kicked_off, mainVars, parseVars, memVars, srvVars,
                   indexVars, recallVars, threadVars, normVars>>

\* _run_task, line 81: kickoff runs the tasks of the crew.
Kickoff ==
    /\ built.state = "built"
    /\ ~kicked_off
    /\ kicked_off' = TRUE
    /\ UNCHANGED <<task_names, search_keys, built, mainVars, parseVars, memVars, srvVars,
                   indexVars, recallVars, threadVars, normVars>>

CrewNext == BuildCrew \/ BuildCrewRaises \/ Kickoff

CrewSpec == CrewInit /\ [][CrewNext]_vars

\* --------------------------------- full_main: _normalize_quant_request
\* The symbol strings of a request: up to MaxSymbols comma separated pieces,
\* empty, blank or a symbol.
RECURSIVE SymbolStrings(_)
SymbolStrings(n) ==
    IF n = 1 THEN {<<piece>> : piece \in {"", " ", "AAPL", "MSFT"}}
    ELSE LET shorter == SymbolStrings(n - 1)
         IN  shorter \cup {Append(s, piece) : s \in {x \in shorter : Len(x) = n - 1},
                                              piece \in {"", " ", "AAPL", "MSFT"}}

NormInit ==
    /\ MainIdle
    /\ runtime_defaults = NoQuantRequest
    /\ ParseIdle
    /\ MemIdle
    /\ SrvIdle
    /\ IndexIdle
    /\ RecallIdle
    /\ ThreadsIdle
    /\ CrewIdle
    /\ quant_req \in {[symbol |-> s, provided_data |-> EmptyStr] : s \in SymbolStrings(MaxSymbols)}
    /\ quant_defaults \in {[symbol |-> s, provided_data |-> EmptyStr] :
                              s \in {EmptyStr, <<"MSFT">>, <<"IBM", "MSFT">>}}
    /\ normalized = <<>>

\* main, lines 201 and 268: _normalize_quant_request is applied.
ApplyNormalizeQuantRequest ==
    /\ normalized = <<>>
    /\ normalized' = <<_normalize_quant_request(quant_req, quant_defaults)>>
    /\ UNCHANGED <<quant_req, quant_defaults, mainVars, parseVars, memVars, srvVars, indexVars,
                   recallVars, threadVars, crewVars>>

NormSpec == NormInit /\ [][ApplyNormalizeQuantRequest]_vars

\* ------------------------------------------------------------------ claims

\* C1: when every audit invocation returns REJECTED with a non-empty
\* required_reruns and an output is non-empty, the run re-invokes the planner
\* for repair exactly 2 times and invokes the audit exactly 3 times before
\* the final report runs.
C1_ExactlyTwoRetries ==
    (pc = "done" /\ persistent) =>
        (repairCalls = max_retries /\ auditCalls = max_retries + 1 /\ finalCalls = 1)

\* C2: whatever the planner and the auditor return, the run never fails, a
\* finished run has invoked the final-report stage exactly once, and the
\* number of stage invocations stays below a fixed constant.
C2_AlwaysReachesFinalReport ==
    /\ pc # "failed"
    /\ pc = "done" => finalCalls = 1
    /\ 1 + researchCalls + quantCalls + auditCalls + repairCalls + finalCalls
           <= 4 * (max_retries + 1) + 3

\* The latest verdict asks for another repair iteration.
VerdictRejects(verdict) ==
    /\ verdict.t = "dict"
    /\ verdict.audit_status \in {"REJECTED", "rejected"}
    /\ verdict.required_reruns # {}

\* C3: a planner re-invocation, a stage rerun or a further audit happens only
\* when the latest audit verdict is REJECTED with a non-empty required_reruns;
\* after any other verdict (or no audit) the next stage is the final report.
C3_LoopStopsOnVerdict ==
    [][ /\ (pc = "audit" /\ ~VerdictRejects(audit_output')) => pc' \in {"final", "failed"}
        /\ (repairCalls' # repairCalls) => VerdictRejects(audit_output)
        /\ (pc # "start" /\ (researchCalls' # researchCalls \/ quantCalls' # quantCalls))
               => VerdictRejects(audit_output)
        /\ (attempt > 0 /\ auditCalls' # auditCalls) => VerdictRejects(audit_output)
      ]_vars

\* An approving verdict that still lists reruns ended the loop at once.
C3_Witness ==
    /\ pc = "final"
    /\ attempt = 0
    /\ auditCalls = 1
    /\ audit_output.audit_status = "APPROVED"
    /\ audit_output.required_reruns = {"research", "quant"}
    /\ repairCalls = 0

\* C4: in a repair iteration research is re-run iff "research" is in
\* required_reruns and the revised plan selects research, quant is re-run iff
\* "quant" is in required_reruns and the revised plan selects quant, and the
\* output of a stage that is not re-run is unchanged.
C4_RerunSelection ==
    [][ (pc = "repair" /\ pc' # "failed") =>
          /\ researchCalls' = (IF "research" \in required_reruns /\ use_research'
                               THEN researchCalls + 1 ELSE researchCalls)
          /\ quantCalls' = (IF "quant" \in required_reruns /\ use_quant'
                            THEN quantCalls + 1 ELSE quantCalls)
          /\ (researchCalls' = researchCalls => research_output' = research_output)
          /\ (quantCalls' = quantCalls => quant_output' = quant_output)
      ]_vars

\* A repair iteration whose verdict named both stages re-ran research only,
\* because the revised plan dropped quant, and the quant output survived.
C4_Witness ==
    /\ pc = "audit"
    /\ attempt = 1
    /\ required_reruns = {"research", "quant"}
    /\ use_research /\ ~use_quant
    /\ researchCalls = 2
    /\ quantCalls = 1
    /\ quant_output = "Q1"

\* C5: whenever the quant stage is about to run, in the first pass or in a
\* repair rerun, with an empty symbol and empty provided_data, the quant agent
\* is not invoked and the quant output is the synthetic result.
C5_QuantShortCircuit ==
    [][ ( /\ pc' # "failed"
          /\ \/ pc = "start" /\ use_quant'
             \/ pc = "repair" /\ "quant" \in required_reruns /\ use_quant'
          /\ QuantInputsEmpty(quant_inputs') )
        => (quantCalls' = quantCalls /\ quant_output' = SyntheticQuant)
      ]_vars

\* C6: whatever _parse_json yields for a stage's raw text, the run goes on
\* to its next step without raising.
C6_NoParseFailure == failed_at = 0

\* The JSON value found from the first "{" or from the first "[".
PrefixScanValues(stripped) ==
    {r.val : r \in {x \in {FromFirst(stripped, "{"), FromFirst(stripped, "[")} : x.ok}}

C8_NonEmptyReply == pc = "done" => printed # <<>>

\* C9: the final text is the final_response field of the final stage's
\* structured output when that field is present and non-empty, the raw text
\* otherwise, in full_main.main and in _extract_final_response alike, also
\* when the object follows a non-JSON prefix.
C9_FinalResponseField ==
    op \in {"full_main", "api_server"} =>
        LET structured == _parse_json(text).val
        IN  IF HasFinalResponse(structured) THEN reply = structured.final_response
            ELSE Strip(reply) = Strip(text)

\* C10: the vector ids handed out by next_vector_id are pairwise distinct,
\* increase by one in allocation order, and no two EmbeddingRecords share one.
C10_DistinctVectorIds ==
    /\ \A i \in 1..Len(allocated) : allocated[i] = i
    /\ \A c, d \in Calls :
        (c # d /\ callPc[c] \in {"add", "save", "done"} /\ callPc[d] \in {"add", "save", "done"})
            => vector_id[c] # vector_id[d]
    /\ \A e, f \in embeddings : e.vector_id = f.vector_id => e = f
    /\ \A c \in Calls : callPc[c] # "duplicate_key"

\* Every call embedded, allocated and recorded its own id.
C10_Witness ==
    /\ \A c \in Calls : callPc[c] = "done"
    /\ Cardinality(embeddings) = NumCalls
    /\ Len(allocated) = NumCalls

\* C11: in every reachable state, the states between the steps of
\* add_message_embedding and after an interruption included, every vector id
\* in the vector index has an EmbeddingRecord.
C11_NoOrphanVector ==
    \A v \in faiss_ids : \E e \in embeddings : e.vector_id = v

\* The EmbeddingRecords of a message.
RecordsOf(c) == {e \in embeddings : e.message_id = c}

EmbeddingImpossible(c) == Strip(content[c]) = <<>> \/ ~openai_client

\* C13: when the embedding fails (blank text, no client, or a provider
\* error), add_message_embedding returns without raising and leaves the
\* counter, the vector index and the EmbeddingRecords unchanged.
C13_FailedEmbeddingIsNoOp ==
    [][ \A c \in Calls :
          /\ (callPc[c] = "embed" /\ callPc'[c] # "embed" /\ EmbeddingImpossible(c))
                 => callPc'[c] = "skipped"
          /\ (callPc[c] = "embed" /\ callPc'[c] = "skipped")
                 => /\ vector_seq' = vector_seq
                    /\ faiss_ids' = faiss_ids
                    /\ embeddings' = embeddings
                    /\ allocated' = allocated
      ]_vars

\* A blank message and a message the provider refused were both skipped
\* while a third message was indexed, and only that one used the counter.
C13_Witness ==
    \E c, d, e \in Calls :
        /\ callPc[c] = "skipped" /\ content[c] = <<" ">>
        /\ callPc[d] = "skipped" /\ content[d] = <<"p">>
        /\ callPc[e] = "done"
        /\ vector_seq = 1 /\ faiss_ids = {1} /\ Cardinality(embeddings) = 1

\* The steps a job's status may take.
JobStatusSteps ==
    {<<"none", "pending">>, <<"pending", "running">>,
     <<"running", "completed">>, <<"running", "failed">>}

\* C14: the status of a job only moves along pending -> running ->
\* completed or failed: a completed or failed job keeps its status, and a
\* running job never returns to pending.
C14_JobStatusMonotonic ==
    [][ \A r \in Reqs :
          jobs'[r].status # jobs[r].status
              => <<jobs[r].status, jobs'[r].status>> \in JobStatusSteps ]_vars

\* One job completed and another failed.
C14_Witness ==
    \E r, q \in Reqs : jobs[r].status = "completed" /\ jobs[q].status = "failed"

C16_StageErrorRecorded ==
    [][ /\ messages \subseteq messages'
        /\ \A r \in Reqs :
            (endpoint[r] = "async" /\ execution_result'[r] = "error")
                => /\ jobs'[r].status = "failed"
                   /\ jobs'[r].error = "StageError"
                   /\ UserMessage(r) \in messages'
                   /\ AssistantMessage(r) \notin messages'
      ]_vars

\* The requests whose kickoff is executing.
InKickoff == {r \in Reqs : worker[r] \in {"kickoff", "emitting"}}

\* C17: at most one kickoff executes at any time, and the request whose
\* kickoff executes holds the run lock.
C17_OneKickoffAtATime ==
    /\ Cardinality(InKickoff) <= 1
    /\ \A r \in InKickoff : run_lock = r

\* A job's kickoff executes while a stream's pipeline thread waits for the
\* run lock.
C17_Witness ==
    \E r, c \in Reqs :
        /\ endpoint[r] = "async" /\ worker[r] = "emitting" /\ run_lock = r
        /\ endpoint[c] = "chat" /\ worker[c] = "wait_lock"

\* C18: the trace collector of a request holds only events of its own run.
C18_NoCrossDelivery ==
    \A r \in Reqs : traces[r] \subseteq {r}

\* The run of a request has ended: its stream was closed or has returned,
\* or its job is completed or failed.
RunEnded(r) ==
    \/ endpoint[r] = "chat" /\ gen[r] \in {"returned", "closed"} /\ worker[r] = "finished"
    \/ endpoint[r] = "async" /\ jobs[r].status \in {"completed", "failed"}

\* C19: once the run of a request has ended, none of the handlers it
\* registered remain on the event bus.
C19_HandlersTornDown ==
    \A r \in Reqs : RunEnded(r) => r \notin handlers

\* C20: when the client of a stream is gone, or nobody polls a job, the
\* run still ends, and the assistant reply of a run that completed is
\* stored and can be retrieved.
C20_AbandonedRunStoresReply ==
    \A r \in Reqs :
        /\ (endpoint[r] = "chat" /\ client[r] = "gone" /\ gen[r] = "closed"
               /\ execution_result[r] = "result")
              => AssistantMessage(r) \in messages
        /\ (endpoint[r] = "async" /\ jobs[r].status = "completed")
              => /\ AssistantMessage(r) \in messages
                 /\ get_job_result(r) = [code |-> 200, body |-> "reply"]

\* The threads inside the with block of add or of search.
InIndexLock == {t \in Threads : tpc[t] \in {"add_locked", "add_added", "add_writing", "search_locked"}}

\* The threads whose insertion has begun and whose write_index has not returned.
Inserting == {t \in Threads : tpc[t] \in {"add_locked", "add_added", "add_writing"}}

\* C21: add and search exclude each other: at most one thread is inside add
\* or search at a time (so two insertions never interleave), and while a
\* search is inside its with block no insertion is between its start and the
\* end of its write: the index the search reads is the one last written.
C21_AddSearchExclusive ==
    /\ Cardinality(InIndexLock) <= 1
    /\ \A t \in Threads :
          tpc[t] = "search_locked" =>
              /\ Inserting = {}
              /\ index_path.state # "partial"
              /\ ~index.is_none => index_path = FileOf(index.ids)

\* A search returned the vector of a finished insertion, and another thread
\* is inside add, between add_with_ids and the end of write_index.
C21_Witness ==
    \E t, u, w \in Threads :
        /\ tpc[t] = "done" /\ u \in found[t]
        /\ tpc[u] = "done"
        /\ tpc[w] \in {"add_added", "add_writing"}

\* C22: after a crash the index file is intact, and it holds either the index
\* before the insertion that was in flight or the index after it.
C22_CrashKeepsFile ==
    crashed =>
        /\ index_path.state # "partial"
        /\ \/ _load(index_path).ids = index.ids
           \/ \E t \in Inserting : _load(index_path).ids = index.ids \ {t}

\* The EmbeddingRecords of a message.
EmbeddingsOf(message_id) == {e \in mongo_embeddings : e.message_id = message_id}

\* The ids of the messages of a thread, the oldest first.
ThreadMessages(thread_id) ==
    SelectSeq([i \in 1..Len(mongo_messages) |-> i],
              LAMBDA i : mongo_messages[i].threadId = thread_id)

\* C23: search_related returns only messages that exist and have an
\* EmbeddingRecord of the thread asked for, each with the score of the query
\* against its own vector, in descending score order; no item stands for the
\* sentinel id -1, and the other hits are dropped.
C23_SearchRelatedResult ==
    spc \in {"summarised", "searched"} =>
        /\ \A i \in DOMAIN related :
              /\ related[i].message_id \in DOMAIN mongo_messages
              /\ \E e \in EmbeddingsOf(related[i].message_id) :
                    /\ e.threadId = asked.thread_id
                    /\ e.vector_id # NoId
                    /\ related[i].score = Score(asked.query, faiss_vectors[e.vector_id])
        /\ \A i, j \in DOMAIN related : i < j => related[i].score >= related[j].score
        /\ Len(related) <= asked.top_k

\* A search on an index with fewer than top_k vectors, some of another thread,
\* returned two messages of the thread with different scores.
C23_Witness ==
    /\ spc = "summarised"
    /\ Len(faiss_vectors) < asked.top_k
    /\ \E e \in mongo_embeddings : e.threadId # asked.thread_id
    /\ Len(related) = 2
    /\ related[1].score > related[2].score

\* C24: a search on the thread of an indexed message, with the content of the
\* message as the query, returns the message, with a score no other returned
\* message exceeds.
C24_OwnContentFindsMessage ==
    spc \in {"summarised", "searched"} =>
        \A e \in mongo_embeddings :
            (asked.thread_id = e.threadId /\ asked.query = mongo_messages[e.message_id].content) =>
                \E i \in DOMAIN related :
                    /\ related[i].message_id = e.message_id
                    /\ \A j \in DOMAIN related : related[i].score >= related[j].score

\* The lines of the summary that list message m.
LinesOf(m) == {i \in DOMAIN summary : summary[i].message_id = m}

\* C25: each message has at most one line in the summary: a message of the
\* recent section is not listed in the related section, and a related message
\* outside the recent section is listed once.
C25_OneLinePerMessage ==
    spc = "summarised" =>
        /\ \A m \in DOMAIN mongo_messages : Cardinality(LinesOf(m)) <= 1
        /\ \A i \in DOMAIN related :
              LET m == related[i].message_id
              IN  IF RecentLine(m) \in Range(summary)
                  THEN RelatedLine(m) \notin Range(summary)
                  ELSE Cardinality({l \in LinesOf(m) : summary[l] = RelatedLine(m)}) = 1

\* The summary has a related message that is recent too, and one that is not.
C25_Witness ==
    /\ spc = "summarised"
    /\ \E i \in DOMAIN related : RecentLine(related[i].message_id) \in Range(summary)
    /\ \E i \in DOMAIN related : RelatedLine(related[i].message_id) \in Range(summary)

\* C26: build_summary on a thread with no message returns the empty string.
C26_EmptyThreadEmptySummary ==
    (spc = "summarised" /\ ThreadMessages(asked.thread_id) = <<>>) => summary = <<>>

\* A summary of a thread with no message, for a query the index has hits for
\* in another thread.
C26_Witness ==
    /\ spc = "summarised"
    /\ ThreadMessages(asked.thread_id) = <<>>
    /\ \E e \in mongo_embeddings : mongo_messages[e.message_id].content = asked.query

\* The message ids of the recent section, in the order of the lines.
RecentSection ==
    LET lines == SelectSeq(summary, LAMBDA l : l.section = "recent" /\ l.message_id # 0)
    IN  [i \in 1..Len(lines) |-> lines[i].message_id]

\* C27: the recent section lists the newest messages of the thread, at most
\* 6, the oldest of them first, and no message of another thread.
C27_RecentSection ==
    spc = "summarised" =>
        LET mine == ThreadMessages(asked.thread_id)
            n == Min(recent_limit, Len(mine))
        IN  RecentSection = SubSeq(mine, Len(mine) - n + 1, Len(mine))

\* The thread has more messages than the section takes.
C27_Witness ==
    /\ spc = "summarised"
    /\ Len(ThreadMessages(asked.thread_id)) > recent_limit
    /\ Len(RecentSection) = recent_limit

\* C28: a message is inserted under the threadId of a thread that exists when
\* it is inserted, on both endpoints and whatever threadId the request
\* carried; the messages inserted before stay as they are.
C28_MessagesInExistingThreads ==
    [][ /\ Len(message_log') >= Len(message_log)
        /\ \A i \in DOMAIN message_log : message_log'[i] = message_log[i]
        /\ \A i \in DOMAIN message_log' \ DOMAIN message_log :
              message_log'[i].threadId \in threads ]_vars

\* Requests of both endpoints that carried no threadId, one no thread has and
\* the id of a thread have their messages stored.
C28_Witness ==
    /\ \E r, q \in Reqs :
          /\ posted[r].endpoint = "chat" /\ posted[q].endpoint = "chat_async"
          /\ {posted[r].supplied, posted[q].supplied} \in {{-1, 1}, {0, 1}}
          /\ posted[r].at = "done" /\ posted[q].at = "done"
    /\ Len(message_log) = 2 * NumRequests
    /\ \A i \in DOMAIN message_log : message_log[i].threadId \in threads

\* The stages a built crew has.
Selected == {built.tasks[i] : i \in DOMAIN built.tasks}

\* C29: in every crew build_crew returns, for all the stages or for some of
\* them, the context of each selected stage is the set of the selected stages
\* that come before it in the fixed order.
C29_ContextIsSelectedPrefix ==
    built.state = "built" =>
        \A s \in Selected :
            built.context[s] = {t \in Selected : OrderOf(t) < OrderOf(s)}

\* C30: without a search key, build_crew raises before any stage runs if the
\* research stage is selected, and a crew of known stages without the
\* research stage is built without that error.
C30_SearchKeyOnlyForResearch ==
    (built.state # "none" /\ _build_search_tool(search_keys) = "ValueError") =>
        LET names == IF task_names.given /\ task_names.names # <<>>
                     THEN {task_names.names[i] : i \in DOMAIN task_names.names}
                     ELSE task_map
        IN  /\ "research" \in names => built.state = "raised" /\ ~kicked_off
            /\ ("research" \notin names /\ names \subseteq task_map) => built.state = "built"

\* C31: an iteration of the loop invokes the audit stage exactly when the
\* research or the quant output is not empty, whatever use_audit the planner
\* gave; the audit stage is invoked nowhere else.
C31_AuditIffOutput ==
    [][ /\ pc = "audit" =>
              (auditCalls' = auditCalls + 1 <=> (research_output # "" \/ quant_output # ""))
        /\ auditCalls' # auditCalls => pc = "audit" /\ auditCalls' = auditCalls + 1 ]_vars

\* A run whose first iteration audited an output and whose second iteration,
\* both outputs being empty after the reruns, did not.
C31_Witness ==
    /\ pc = "final" /\ attempt = 1
    /\ auditCalls = 1
    /\ research_output = "" /\ quant_output = ""

\* The symbol string _normalize_quant_request reads (line 107) and its
\* entries that are not blank.
SymbolRaw == OrElse(quant_req.symbol, quant_defaults.symbol)
GivenSymbols == {i \in DOMAIN SymbolRaw : SymbolRaw[i] \notin {"", " "}}

\* C32: the normalized symbol is the first entry of the symbol list that is
\* not blank, empty if there is none, and the request text carries the note
\* about multiple symbols exactly when more than one symbol was given.
C32_FirstSymbolAndNote ==
    normalized # <<>> =>
        /\ normalized[1].symbol =
              IF GivenSymbols = {} THEN ""
              ELSE SymbolRaw[CHOOSE i \in GivenSymbols : \A j \in GivenSymbols : i <= j]
        /\ Len(normalized[1].request) > 1 <=> Cardinality(GivenSymbols) > 1
        /\ Len(normalized[1].request) > 1 => normalized[1].request[2] = normalized[1].symbol

\* A request of two symbols after a blank entry was normalised to the first.
C32_Witness ==
    /\ normalized # <<>>
    /\ quant_req.symbol = <<" ", "MSFT", "AAPL">>
    /\ normalized[1].symbol = "MSFT"
    /\ normalized[1].request = <<"req_text", "MSFT">>

\* The threads that leave add at add_with_ids with a vector whose dimension
\* is not that of the index.
Mismatched == {t \in Threads : tpc[t] = "add_locked" /\ ~index.is_none /\ vector_d[t] # index_d}

\* C33: the first inserted vector fixes the dimension of the index, and the
\* insertion of a vector of another dimension fails with a DimensionMismatch
\* error and leaves the index in memory and the index file as they were.
C33_DimensionMismatch ==
    [][ /\ \A t \in Threads :
              (tpc[t] = "add_locked" /\ tpc'[t] = "add_added" /\ index.is_none) =>
                  index_d' = vector_d[t]
        /\ ~index.is_none => index_d' = index_d
        /\ \A t \in Mismatched :
              tpc'[t] # tpc[t] =>
                  /\ tpc'[t] = "DimensionMismatch"
                  /\ index' = index /\ index_d' = index_d /\ index_path' = index_path ]_vars

\* C34: a search on an index that holds no vector gets two empty lists from
\* the index, and search_related returns the empty list.
C34_EmptyIndexSearch ==
    (spc \in {"summarised", "searched"} /\ faiss_vectors = <<>>) =>
        /\ FaissSearch(asked.query, asked.top_k) = { [ids |-> <<>>, scores |-> <<>>] }
        /\ related = <<>>

\* A search for a text on an index that was never given a vector.
C34_Witness ==
    /\ spc = "searched"
    /\ faiss_vectors = <<>>
    /\ asked.query = <<"p">>
    /\ related = <<>>


\* C36: the verdict the final-report stage receives was given on the very
\* research and quant outputs that stage receives: the step that hands the
\* run over to the final report reruns neither research nor quant, so no
\* rerun follows the last audit.
C36_NoRerunAfterLastAudit ==
    [][ (pc # "final" /\ pc' = "final") =>
            /\ researchCalls' = researchCalls
            /\ quantCalls' = quantCalls
            /\ research_output' = research_output
            /\ quant_output' = quant_output ]_vars


\* The trace frames of its own run that the stream of r yielded, and the
\* response and error frames it yielded.
OwnTraceFrames(r) == SelectSeq(yielded[r], LAMBDA f : f.type = "trace" /\ f.run = r)
TerminalFrames(r) == SelectSeq(yielded[r], LAMBDA f : f.type \in {"response", "error"})

\* The frames run r queued, in the order of their emission.
EmittedFrames(r) == [k \in 1..emitted[r] |-> [type |-> "trace", run |-> r, seq |-> k]]

C37_JobRegistry ==
    \A r \in Reqs :
        /\ jobs[r].result # "" <=> jobs[r].status = "completed"
        /\ jobs[r].error # "" <=> jobs[r].status = "failed"
        /\ get_job_result(r).code =
               CASE jobs[r].status = "completed" -> 200
                 [] jobs[r].status \in {"pending", "running"} -> 425
                 [] jobs[r].status = "failed" -> 500
                 [] jobs[r].status = "none" -> 404
        /\ get_job_result(r).code = 200 => get_job_result(r).body = jobs[r].result
        /\ get_job_result(r).code \in {404, 425} => get_job_result(r).body = ""

\* One job completed and read with 200, another failed and read with 500.
C37_Witness ==
    /\ jobs[1].status = "completed" /\ get_job_result(1) = [code |-> 200, body |-> "reply"]
    /\ jobs[2].status = "failed" /\ get_job_result(2).code = 500


\* C38: the lock of a stream's queued frames is not held while the stream's
\* generator is suspended at a yield, and so no run that is calling the
\* handlers for an event finds a handler that must wait for that lock.
C38_StreamLockFreeAtYield ==
    \A r \in Reqs :
        /\ gen[r] \in AtYield => ~stream_lock[r]
        /\ worker[r] = "emitting" => \A h \in handlers : ~HandlerBlocked(h)


\* The requests whose user or assistant message a step stores and indexes:
\* add_message_embedding takes the vector-index lock in FaissIndex.add.
Indexing(r) ==
    \/ UserMessage(r) \in messages' \ messages
    \/ AssistantMessage(r) \in messages' \ messages

C40_EmptyRejectedAndThreadCreation ==
    [][ /\ \A r \in Reqs :
            /\ (posted[r].at = "none" /\ posted'[r].at = "400") =>
                   UNCHANGED <<threads, message_log, memVars, srvVars, indexVars>>
            /\ posted[r].at = "400" => posted'[r] = posted[r]
            /\ (posted[r].at = "none" /\ posted'[r].at # "none") =>
                   posted'[r].at \in {"400", "get_thread"}
            /\ (posted[r].at = "create_thread" /\ posted'[r].at # "create_thread") =>
                   /\ threads' # threads <=>
                          (posted[r].supplied = 0 \/ posted[r].supplied \notin threads)
                   /\ threads' # threads => posted'[r].thread_id \in threads' \ threads
        /\ threads \subseteq threads'
        /\ Cardinality(threads') <= Cardinality(threads) + 1
        /\ threads' # threads =>
               \E r \in Reqs : posted[r].at = "create_thread" /\ posted'[r].at = "add_user" ]_vars

\* One request was rejected with 400 and left nothing behind; the other
\* carried the id of no thread and got the one thread there is.
C40_Witness ==
    /\ posted[1].at = "400"
    /\ posted[2].supplied = -1
    /\ posted[2].at = "done"
    /\ threads = {posted[2].thread_id}
    /\ \A i \in DOMAIN message_log : message_log[i].content = 2

====
